---------------------------- MODULE Spec2Model ----------------------------
(***************************************************************************)
(* Figure-reference resolution of PDFRecognitionAPI.                       *)
(*                                                                         *)
(*   app/services/figure_mapper.py   FigureMapper (graph-based mapping)    *)
(*   app/services/pdf_processor.py   PDFProcessor.process_pdf              *)
(*   app/api/analyze.py              AnalyzeAPI._process_pdf               *)
(*                                                                         *)
(* Texts and IDs are sequences of one-character strings, so that the       *)
(* regular expressions, substring tests and word splitting of the source   *)
(* are computed character by character.  Edge weights are exact rationals  *)
(* [n, d] (n/d, d > 0).                                                    *)
(***************************************************************************)
EXTENDS Integers, Sequences, FiniteSets, TLC

(***************************************************************************)
(* Characters and strings                                                  *)
(***************************************************************************)
UpperAlpha == <<"A","B","C","D","E","F","G","H","I","J","K","L","M",
                "N","O","P","Q","R","S","T","U","V","W","X","Y","Z">>

LowerAlpha == <<"a","b","c","d","e","f","g","h","i","j","k","l","m",
                "n","o","p","q","r","s","t","u","v","w","x","y","z">>

\* Hangul syllables of the Korean keywords, one symbol per syllable:
\* geu-rim (figure), pyo (table), sik / su-sik (equation), ye-je (example),
\* al-go-ri-jeum (algorithm)
Hangul == {"<geu>","<rim>","<pyo>","<sik>","<ye>","<je>",
           "<al>","<go>","<ri>","<jeum>","<su>"}

Digits == {"0","1","2","3","4","5","6","7","8","9"}

Range(s) == {s[k] : k \in DOMAIN s}

\* the lower-case letter of each upper-case letter
LowerOf == [c \in Range(UpperAlpha) |->
               LowerAlpha[CHOOSE k \in DOMAIN UpperAlpha : UpperAlpha[k] = c]]

\* str.lower() on one character
LowerChar(c) == IF c \in DOMAIN LowerOf THEN LowerOf[c] ELSE c

\* The texts of the inputs used below: reference texts, Figure captions,
\* layout types and IDs
T_Fig             == <<"F","i","g","."," ","2",".","3","1">>
T_Paren           == <<"(","2",".","3","1",")">>
T_Table           == <<"T","a","b","l","e"," ","2",".","3","1">>
T_Ex              == <<"E","x","."," ","2",".","3","1">>
T_Alg             == <<"A","l","g","."," ","2",".","3","1">>
T_Figs            == <<"F","i","g","s","."," ","1">>
T_FigureCaption   == <<"F","i","g","u","r","e"," ","2",".","3","1",":"," ","T","e","s","t"," ","f","i","g","u","r","e">>
T_EquationCaption == <<"E","q","u","a","t","i","o","n"," ","(","2",".","3","1",")">>
T_TableCaption    == <<"T","a","b","l","e"," ","2",".","3","1",":"," ","T","e","s","t"," ","t","a","b","l","e">>
T_FIG             == <<"F","I","G","."," ","2",".","3","1">>
T_figure          == <<"f","i","g","u","r","e">>
T_formula         == <<"f","o","r","m","u","l","a">>
T_table           == <<"t","a","b","l","e">>
T_image           == <<"i","m","a","g","e">>
T_number          == <<"n","u","m","b","e","r">>
T_231             == <<"2",".","3","1">>
T_9               == <<"9">>
T_5               == <<"5">>
T_231a            == <<"2",".","3","1","a">>

CatTexts == {<<>>, T_Fig, T_Paren, T_Table, T_Ex, T_Alg, T_Figs,
             T_FigureCaption, T_EquationCaption, T_TableCaption, T_FIG,
             T_figure, T_formula, T_table, T_image, T_number, T_231, T_9, T_5}

\* str.lower() of the texts above, computed once
lower_cache == [t \in CatTexts |-> [k \in DOMAIN t |-> LowerChar(t[k])]]

\* str.lower()
Lower(t) ==
    IF t \in DOMAIN lower_cache THEN lower_cache[t]
    ELSE [k \in DOMAIN t |-> LowerChar(t[k])]

\* regex classes \d, \s, \w
IsDigit(c) == c \in Digits
Spaces == {" ", "\t", "\n"}
WordChars == Digits \cup Range(UpperAlpha) \cup Range(LowerAlpha) \cup Hangul \cup {"_"}
IsSpace(c) == c \in Spaces
IsWord(c) == c \in WordChars

\* the literal kw occurs in t at position i (1-based)
HasAt(t, i, kw) ==
    /\ i >= 1
    /\ i + Len(kw) - 1 <= Len(t)
    /\ \A k \in 1..Len(kw) : t[i + k - 1] = kw[k]

\* Python's  `s in t`  for strings
Contains(t, s) == \E i \in 1..(Len(t) - Len(s) + 1) : HasAt(t, i, s)

\* first position >= j that does not hold a digit  (greedy \d*)
RECURSIVE DigitsEnd(_, _)
DigitsEnd(t, j) ==
    IF j <= Len(t) /\ IsDigit(t[j]) THEN DigitsEnd(t, j + 1) ELSE j

\* greedy (?:\.\d+)* starting at e
RECURSIVE NumTail(_, _)
NumTail(t, e) ==
    IF e + 1 <= Len(t) /\ t[e] = "." /\ IsDigit(t[e + 1])
    THEN NumTail(t, DigitsEnd(t, e + 1))
    ELSE e

\* \d+(?:\.\d+)* at position j: the position after the number, 0 if none
NumEnd(t, j) ==
    LET e == DigitsEnd(t, j) IN IF e = j THEN 0 ELSE NumTail(t, e)

\* greedy \s*
RECURSIVE SkipSpaces(_, _)
SkipSpaces(t, j) ==
    IF j <= Len(t) /\ IsSpace(t[j]) THEN SkipSpaces(t, j + 1) ELSE j

\* greedy \.?
SkipDot(t, j) == IF j <= Len(t) /\ t[j] = "." THEN j + 1 ELSE j

NoMatch == [ok |-> FALSE, start |-> 0, stop |-> 0, gs |-> 0, ge |-> 0]

(***************************************************************************)
(* A keyword pattern  kw(?:ext)?\.?\s*(N)  or  kw(?:ext)?\.?\s*\((N)\)     *)
(* is the record [kind |-> "kw", kw, ext, paren]; the lone parenthesised   *)
(* number (?<!\w)\((N)\)(?!\w) is [kind |-> "bare"].  N = \d+(?:\.\d+)*.   *)
(* No alternative of these expressions can succeed after the greedy one    *)
(* failed (the character that an optional part would give back is a        *)
(* letter or a dot, which nothing after it accepts), so the greedy scan is *)
(* the whole match.                                                        *)
(***************************************************************************)
KwPat(kw, ext, paren) == [kind |-> "kw", kw |-> kw, ext |-> ext, paren |-> paren]
BarePat == [kind |-> "bare", kw |-> <<>>, ext |-> <<>>, paren |-> TRUE]
\* the parenthesised number without lookarounds, \((N)\)
ParenPat == [kind |-> "paren", kw |-> <<>>, ext |-> <<>>, paren |-> TRUE]

\* the number (and its parentheses when paren) at position j
NumberAt(t, i, j, paren) ==
    IF paren
    THEN IF j <= Len(t) /\ t[j] = "("
         THEN LET e == NumEnd(t, j + 1) IN
              IF e # 0 /\ e <= Len(t) /\ t[e] = ")"
              THEN [ok |-> TRUE, start |-> i, stop |-> e + 1, gs |-> j + 1, ge |-> e]
              ELSE NoMatch
         ELSE NoMatch
    ELSE LET e == NumEnd(t, j) IN
         IF e # 0
         THEN [ok |-> TRUE, start |-> i, stop |-> e, gs |-> j, ge |-> e]
         ELSE NoMatch

\* pattern.match at position i
MatchAt(t, i, p) ==
    IF p.kind = "bare"
    THEN IF (i = 1 \/ ~IsWord(t[i - 1]))
         THEN LET m == NumberAt(t, i, i, TRUE) IN
              IF m.ok /\ (m.stop > Len(t) \/ ~IsWord(t[m.stop])) THEN m ELSE NoMatch
         ELSE NoMatch
    ELSE IF p.kind = "paren" THEN NumberAt(t, i, i, TRUE)
    ELSE IF HasAt(t, i, p.kw)
         THEN LET a == i + Len(p.kw)
                  b == IF Len(p.ext) > 0 /\ HasAt(t, a, p.ext) THEN a + Len(p.ext) ELSE a
              IN NumberAt(t, i, SkipSpaces(t, SkipDot(t, b)), p.paren)
         ELSE NoMatch

\* pattern.search: the leftmost match at or after position i; OrFrom is the
\* match m if it is one, and else the search from position i
RECURSIVE SearchFrom(_, _, _)
OrFrom(m, t, i, p) == IF m.ok THEN m ELSE SearchFrom(t, i, p)

SearchFrom(t, i, p) ==
    IF i > Len(t) THEN NoMatch ELSE OrFrom(MatchAt(t, i, p), t, i + 1, p)

\* match.group(1)
Group1(t, m) == SubSeq(t, m.gs, m.ge - 1)

\* str.split(): the set of whitespace-separated words of t
RECURSIVE WordsFrom(_, _)
WordsFrom(t, j) ==
    LET s == SkipSpaces(t, j) IN
    IF s > Len(t) THEN {}
    ELSE LET e == CHOOSE e \in (s + 1)..(Len(t) + 1) :
                     /\ (e = Len(t) + 1 \/ IsSpace(t[e]))
                     /\ \A k \in s..(e - 1) : ~IsSpace(t[k])
         IN {SubSeq(t, s, e - 1)} \cup WordsFrom(t, e)

\* str.split() of the lower-case texts above, computed once
words_cache == [t \in {lower_cache[x] : x \in CatTexts} |-> WordsFrom(t, 1)]

Words(t) == IF t \in DOMAIN words_cache THEN words_cache[t] ELSE WordsFrom(t, 1)


(***************************************************************************)
(* FigureMapper: types, patterns and the pure helpers                      *)
(***************************************************************************)
\* class ReferenceType
FIGURE == "figure"
TABLE == "table"
EQUATION == "equation"
EXAMPLE == "example"
ALGORITHM == "algorithm"
UNKNOWN == "unknown"

\* the absent ID (None) and the empty string
None == <<>>

\* FigureMapper.type_patterns, in the iteration order of compiled_patterns
type_patterns == <<
    [ref_type |-> FIGURE,    p |-> KwPat(<<"f","i","g">>, <<"u","r","e">>, FALSE)],
    [ref_type |-> FIGURE,    p |-> KwPat(<<"<geu>","<rim>">>, <<>>, FALSE)],
    [ref_type |-> TABLE,     p |-> KwPat(<<"t","a","b">>, <<"l","e">>, FALSE)],
    [ref_type |-> TABLE,     p |-> KwPat(<<"<pyo>">>, <<>>, FALSE)],
    [ref_type |-> EQUATION,  p |-> KwPat(<<"e","q">>, <<"u","a","t","i","o","n">>, TRUE)],
    [ref_type |-> EQUATION,  p |-> KwPat(<<"e","q">>, <<"u","a","t","i","o","n">>, FALSE)],
    [ref_type |-> EQUATION,  p |-> BarePat],
    [ref_type |-> EQUATION,  p |-> KwPat(<<"<sik>">>, <<>>, TRUE)],
    [ref_type |-> EXAMPLE,   p |-> KwPat(<<"e","x">>, <<"a","m","p","l","e">>, FALSE)],
    [ref_type |-> EXAMPLE,   p |-> KwPat(<<"<ye>","<je>">>, <<>>, FALSE)],
    [ref_type |-> ALGORITHM, p |-> KwPat(<<"a","l","g">>, <<"o","r","i","t","h","m">>, FALSE)],
    [ref_type |-> ALGORITHM, p |-> KwPat(<<"<al>","<go>","<ri>","<jeum>">>, <<>>, FALSE)] >>

\* the searches of the patterns in the lower-case texts above, computed once
search_cache ==
    [t \in {lower_cache[x] : x \in CatTexts} |->
        [k \in DOMAIN type_patterns |-> SearchFrom(t, 1, type_patterns[k].p)]]

\* compiled_patterns[k].search(t)
Search(t, k) ==
    IF t \in DOMAIN search_cache THEN search_cache[t][k]
    ELSE SearchFrom(t, 1, type_patterns[k].p)

\* dict.get(key, default)
Get(d, key, default) == IF key \in DOMAIN d THEN d[key] ELSE default

\* FigureMapper._extract_typed_id_from_reference
RECURSIVE FirstTypedMatch(_, _)
FirstTypedMatch(ref_lower, k) ==
    IF k > Len(type_patterns) THEN [ref_type |-> UNKNOWN, ref_id |-> None]
    ELSE LET m == Search(ref_lower, k) IN
         IF m.ok
         THEN [ref_type |-> type_patterns[k].ref_type, ref_id |-> Group1(ref_lower, m)]
         ELSE FirstTypedMatch(ref_lower, k + 1)

extract_typed_id_from_reference(ref_text) ==
    IF ref_text = <<>> THEN [ref_type |-> UNKNOWN, ref_id |-> None]
    ELSE FirstTypedMatch(Lower(ref_text), 1)

\* any(keyword in text for keyword in kws)
AnyIn(kws, text) == \E kw \in kws : Contains(text, kw)

\* FigureMapper._get_figure_type
get_figure_type(figure) ==
    LET fig_type == Lower(Get(figure, "type", <<>>))
        fig_text == Lower(Get(figure, "text", <<>>))
    IN  IF Contains(fig_type, <<"t","a","b","l","e">>) THEN TABLE
        ELSE IF Contains(fig_type, <<"f","o","r","m","u","l","a">>) \/ Contains(fig_type, <<"e","q","u","a","t","i","o","n">>) THEN EQUATION
        ELSE IF Contains(fig_type, <<"a","l","g","o","r","i","t","h","m">>) THEN ALGORITHM
        ELSE IF Contains(fig_type, <<"f","i","g","u","r","e">>) \/ Contains(fig_type, <<"i","m","a","g","e">>) THEN FIGURE
        ELSE IF AnyIn({<<"t","a","b","l","e">>, <<"<pyo>">>}, fig_text) THEN TABLE
        ELSE IF AnyIn({<<"e","q","u","a","t","i","o","n">>, <<"e","q",".">>, <<"<sik>">>}, fig_text) THEN EQUATION
        ELSE IF AnyIn({<<"e","x","a","m","p","l","e">>, <<"e","x",".">>, <<"<ye>","<je>">>}, fig_text) THEN EXAMPLE
        ELSE IF AnyIn({<<"a","l","g","o","r","i","t","h","m">>, <<"a","l","g",".">>, <<"<al>","<go>","<ri>","<jeum>">>}, fig_text) THEN ALGORITHM
        ELSE IF AnyIn({<<"f","i","g","u","r","e">>, <<"f","i","g",".">>, <<"<geu>","<rim>">>}, fig_text) THEN FIGURE
        ELSE FIGURE

\* FigureMapper._is_type_compatible.compatible_types
compatible_types(ref_type) ==
    CASE ref_type = EQUATION  -> {EQUATION}
      [] ref_type = FIGURE    -> {FIGURE}
      [] ref_type = TABLE     -> {TABLE}
      [] ref_type = EXAMPLE   -> {EXAMPLE, FIGURE}
      [] ref_type = ALGORITHM -> {ALGORITHM, FIGURE}
      [] OTHER                -> {}

\* FigureMapper._is_type_compatible
is_type_compatible(ref_type, fig_type) ==
    \/ ref_type = fig_type
    \/ fig_type \in compatible_types(ref_type)

\* FigureMapper._is_id_match
is_id_match(ref_id, figure_data) ==
    IF ref_id = None THEN FALSE
    ELSE \/ Get(figure_data, "figure_id", <<>>) = ref_id
         \/ Contains(Lower(Get(figure_data, "text", <<>>)), ref_id)

(***************************************************************************)
(* Bounding boxes are {x, y, width, height} or the empty dict.  Distances  *)
(* are kept doubled (box centres lie on half pixels): dd = 2 * distance.   *)
(***************************************************************************)
EmptyDict == [empty |-> TRUE]

BBox(x, y, w, h) == [x |-> x, y |-> y, width |-> w, height |-> h]

Inf == -1

\* integer square root; arguments of 1000000 or more give 1000, which is all
\* the caller's test `distance < 500` (dd < 1000) needs
ISqrt(n) ==
    IF n >= 1000000 THEN 1000
    ELSE CHOOSE r \in 0..999 : r * r <= n /\ n < (r + 1) * (r + 1)

\* FigureMapper._calculate_distance, doubled; Inf for float('inf')
calculate_distance(bbox1, bbox2) ==
    IF bbox1 = EmptyDict \/ bbox2 = EmptyDict THEN Inf
    ELSE LET x1 == 2 * Get(bbox1, "x", 0) + Get(bbox1, "width", 0)
             y1 == 2 * Get(bbox1, "y", 0) + Get(bbox1, "height", 0)
             x2 == 2 * Get(bbox2, "x", 0) + Get(bbox2, "width", 0)
             y2 == 2 * Get(bbox2, "y", 0) + Get(bbox2, "height", 0)
         IN ISqrt((x2 - x1) * (x2 - x1) + (y2 - y1) * (y2 - y1))

\* exact rationals n/d with d > 0
W(n, d) == [n |-> n, d |-> d]
Gt(a, b) == a.n * b.d > b.n * a.d
Eq(a, b) == a.n * b.d = b.n * a.d
Plus(a, b) == W(a.n * b.d + b.n * a.d, a.d * b.d)
Zero == W(0, 1)

\* FigureMapper._calculate_text_similarity (Jaccard index of the word sets)
calculate_text_similarity(text1, text2) ==
    IF text1 = <<>> \/ text2 = <<>> THEN Zero
    ELSE LET words1 == Words(text1)
             words2 == Words(text2)
         IN IF words1 = {} \/ words2 = {} THEN Zero
            ELSE W(Cardinality(words1 \cap words2), Cardinality(words1 \cup words2))


(***************************************************************************)
(* The graph (networkx.DiGraph) of a FigureMapper.                         *)
(*   fig_nodes  keys of the figure nodes, in insertion order; a figure     *)
(*              node is keyed by its figure_id                             *)
(*   fig_attr   attributes of each figure node                             *)
(*   ref_nodes  attributes of the reference nodes; the node "ref_i" of the *)
(*              source is position i + 1                                   *)
(*   edges      edges[i + 1] = out-edges of "ref_i" in insertion order     *)
(*              (the order of DiGraph.successors); a DiGraph holds at most *)
(*              one edge per ordered pair                                  *)
(* A figure_id never has the form "ref_<i>" (IDs are numbers or generated  *)
(* from positions), so figure keys and reference keys do not collide.      *)
(***************************************************************************)
NewGraph == [fig_nodes |-> <<>>, fig_attr |-> <<>>, ref_nodes |-> <<>>, edges |-> <<>>]

\* a clear() that leaves the graph as it is
graph_clear_keep(g) == g

\* DiGraph.clear()
graph_clear(g) == NewGraph

\* DiGraph.add_node(fig_id, type='figure', ...): a new key is appended, an
\* existing key has its attributes updated
add_figure_node(g, figure) ==
    LET fig_id == Get(figure, "figure_id", <<>>) IN
    IF fig_id = <<>> THEN g
    ELSE LET attrs == [fig_type |-> get_figure_type(figure),
                       data     |-> figure,
                       page_idx |-> Get(figure, "page_idx", 0),
                       bbox     |-> Get(figure, "bbox", EmptyDict),
                       text     |-> Get(figure, "text", <<>>)]
         IN IF fig_id \in DOMAIN g.fig_attr
            THEN [g EXCEPT !.fig_attr[fig_id] = attrs]
            ELSE [g EXCEPT !.fig_nodes = Append(@, fig_id),
                           !.fig_attr  = (fig_id :> attrs) @@ @]

\* the attributes of a reference node; typed is the (ref_type, ref_id) of
\* _extract_typed_id_from_reference
reference_attrs(reference, typed) ==
    [ref_type |-> typed.ref_type,
     ref_id   |-> typed.ref_id,
     data     |-> reference,
     text     |-> Get(reference, "text", <<>>),
     bbox     |-> Get(reference, "bbox", EmptyDict),
     page_idx |-> Get(reference, "page_idx", 0)]

\* DiGraph.add_node(ref_node_id, **attrs): a new key is appended, an
\* existing key has its attributes updated
add_node(g, i, attrs) ==
    IF i <= Len(g.ref_nodes)
    THEN [g EXCEPT !.ref_nodes[i] = attrs]
    ELSE [g EXCEPT !.ref_nodes = Append(@, attrs), !.edges = Append(@, <<>>)]

\* _build_graph, lines 117-133: the node of reference i
add_reference_node(g, i, reference) ==
    add_node(g, i,
             reference_attrs(reference,
                             extract_typed_id_from_reference(Get(reference, "text", <<>>))))

\* DiGraph.add_edge(ref_node, fig_node, weight=..., relation=...): an edge
\* that exists has its attributes overwritten and keeps its position.
\* The field log is not program state: it records the weights of all the
\* add_edge calls made for the pair, in order, for use in properties.
add_edge(g, i, fig_node, weight, relation) ==
    LET out == g.edges[i]
    IN IF \E k \in DOMAIN out : out[k].to = fig_node
       THEN [g EXCEPT !.edges[i] =
                [k \in DOMAIN out |->
                    IF out[k].to = fig_node
                    THEN [to |-> fig_node, weight |-> weight, relation |-> relation,
                          log |-> Append(out[k].log, weight)]
                    ELSE out[k]]]
       ELSE [g EXCEPT !.edges[i] =
                Append(out, [to |-> fig_node, weight |-> weight, relation |-> relation,
                             log |-> <<weight>>])]

\* _build_graph, lines 98-114: the figure nodes
RECURSIVE add_figure_nodes(_, _, _)
add_figure_nodes(g, figures, k) ==
    IF k > Len(figures) THEN g
    ELSE add_figure_nodes(add_figure_node(g, figures[k]), figures, k + 1)

\* _build_graph, lines 136-150: the ID edges of reference i
RECURSIVE add_id_edges(_, _, _)
add_id_edges(g, i, k) ==
    IF k > Len(g.fig_nodes) THEN g
    ELSE LET fig_node == g.fig_nodes[k]
             fig_data == g.fig_attr[fig_node]
             ref      == g.ref_nodes[i]
             g1 == IF /\ ref.ref_id # None
                      /\ ref.ref_type # UNKNOWN
                      /\ is_type_compatible(ref.ref_type, fig_data.fig_type)
                      /\ is_id_match(ref.ref_id, fig_data.data)
                   THEN add_edge(g, i, fig_node, W(9, 10), "typed_id_match")
                   ELSE g
         IN add_id_edges(g1, i, k + 1)

\* _build_graph, lines 117-150: the reference nodes and their ID edges
RECURSIVE add_reference_nodes(_, _, _)
add_reference_nodes(g, references, i) ==
    IF i > Len(references) THEN g
    ELSE add_reference_nodes(
             add_id_edges(add_reference_node(g, i, references[i]), i, 1),
             references, i + 1)

\* _add_spatial_relationships: the inner loop body
spatial_edge(g, i, fig_node) ==
    LET ref_data == g.ref_nodes[i]
        fig_data == g.fig_attr[fig_node]
    IN IF ~is_type_compatible(ref_data.ref_type, fig_data.fig_type) THEN g
       ELSE IF ref_data.page_idx = fig_data.page_idx
       THEN LET dd == calculate_distance(ref_data.bbox, fig_data.bbox) IN
            IF dd # Inf /\ dd < 1000
            THEN add_edge(g, i, fig_node, W((1000 - dd) * 4, 10000), "same_page_typed")
            ELSE g
       \* abs(ref_page - fig_page) == 1 and ref_page > fig_page
       ELSE IF ref_data.page_idx - fig_data.page_idx = 1
       THEN add_edge(g, i, fig_node, W(2, 10), "next_page_typed")
       ELSE g

\* _add_semantic_relationships: the inner loop body
semantic_edge(g, i, fig_node) ==
    LET ref_data == g.ref_nodes[i]
        fig_data == g.fig_attr[fig_node]
    IN IF ~is_type_compatible(ref_data.ref_type, fig_data.fig_type) THEN g
       ELSE LET similarity == calculate_text_similarity(Lower(ref_data.text),
                                                        Lower(fig_data.text))
            IN IF Gt(similarity, W(2, 10))
               THEN add_edge(g, i, fig_node,
                             W(similarity.n * 3, similarity.d * 10), "semantic_typed")
               ELSE g

\* the loops `for ref_node in ref_nodes: for fig_node in fig_nodes`, with
\* the node lists taken before the loop (edges add no node)
RECURSIVE spatial_loop(_, _, _)
spatial_loop(g, i, k) ==
    IF i > Len(g.ref_nodes) THEN g
    ELSE IF k > Len(g.fig_nodes) THEN spatial_loop(g, i + 1, 1)
    ELSE spatial_loop(spatial_edge(g, i, g.fig_nodes[k]), i, k + 1)

RECURSIVE semantic_loop(_, _, _)
semantic_loop(g, i, k) ==
    IF i > Len(g.ref_nodes) THEN g
    ELSE IF k > Len(g.fig_nodes) THEN semantic_loop(g, i + 1, 1)
    ELSE semantic_loop(semantic_edge(g, i, g.fig_nodes[k]), i, k + 1)

\* FigureMapper._add_spatial_relationships
add_spatial_relationships(g) == spatial_loop(g, 1, 1)

\* FigureMapper._add_semantic_relationships
add_semantic_relationships(g) == semantic_loop(g, 1, 1)

\* FigureMapper._build_graph
build_graph(g, references, figures) ==
    add_semantic_relationships(
        add_spatial_relationships(
            add_reference_nodes(add_figure_nodes(g, figures, 1), references, 1)))

\* list.sort(key=weight, reverse=True): stable, descending
RECURSIVE sort_desc(_)
sort_desc(l) ==
    IF Len(l) <= 1 THEN l
    ELSE LET init == sort_desc(SubSeq(l, 1, Len(l) - 1))
             x    == l[Len(l)]
             \* x goes behind every element that is not smaller than x
             pos  == Cardinality({k \in DOMAIN init : ~Gt(x.weight, init[k].weight)})
         IN SubSeq(init, 1, pos) \o <<x>> \o SubSeq(init, pos + 1, Len(init))

\* the threshold of _infer_relationships
threshold == W(3, 10)

\* _infer_relationships: the (figure, weight) list of one reference node
connected_figures(g, i) ==
    [k \in DOMAIN g.edges[i] |-> [to |-> g.edges[i][k].to, weight |-> g.edges[i][k].weight]]

\* an inference that accepts a best weight equal to the threshold
infer_relationships_ge(g) ==
    LET matched == {i \in DOMAIN g.ref_nodes :
                       /\ Len(connected_figures(g, i)) > 0
                       /\ ~Gt(threshold, sort_desc(connected_figures(g, i))[1].weight)}
    IN [i \in matched |-> sort_desc(connected_figures(g, i))[1].to]

\* FigureMapper._infer_relationships: the dict mappings, keyed by the
\* position of the reference node
infer_relationships(g) ==
    LET matched == {i \in DOMAIN g.ref_nodes :
                       /\ Len(connected_figures(g, i)) > 0
                       /\ Gt(sort_desc(connected_figures(g, i))[1].weight, threshold)}
    IN [i \in matched |-> sort_desc(connected_figures(g, i))[1].to]

\* FigureMapper._create_unmapped_references
create_unmapped_references(references) ==
    [i \in DOMAIN references |->
        [text           |-> Get(references[i], "text", <<>>),
         bbox           |-> Get(references[i], "bbox", EmptyDict),
         not_matched    |-> TRUE,
         reference_type |->
            extract_typed_id_from_reference(Get(references[i], "text", <<>>)).ref_type]]

\* an output list that holds the matched references only
mapped_references_matched_only(g, references, mappings) ==
    LET matched == {i \in DOMAIN references : i \in DOMAIN mappings}
        nth(j)  == CHOOSE i \in matched : Cardinality({m \in matched : m < i}) = j - 1
    IN [j \in 1..Cardinality(matched) |->
           [text           |-> Get(references[nth(j)], "text", <<>>),
            bbox           |-> Get(references[nth(j)], "bbox", EmptyDict),
            figure_id      |-> mappings[nth(j)],
            not_matched    |-> FALSE,
            reference_type |-> g.ref_nodes[nth(j)].ref_type]]

\* map_references_to_figures, lines 73-93: the output list
mapped_references(g, references, mappings) ==
    [i \in DOMAIN references |->
        IF i \in DOMAIN mappings
        THEN [text           |-> Get(references[i], "text", <<>>),
              bbox           |-> Get(references[i], "bbox", EmptyDict),
              figure_id      |-> mappings[i],
              not_matched    |-> FALSE,
              reference_type |-> g.ref_nodes[i].ref_type]
        ELSE [text           |-> Get(references[i], "text", <<>>),
              bbox           |-> Get(references[i], "bbox", EmptyDict),
              not_matched    |-> TRUE]]

\* map_references_to_figures, lines 69-93, on the graph g1 that
\* _build_graph has built
mapping_result(g1, references) ==
    [graph |-> g1, out |-> mapped_references(g1, references, infer_relationships(g1))]

\* a mapper that returns on an empty list before it clears the graph
map_references_to_figures_late_clear(g, references, figures) ==
    IF references = <<>> \/ figures = <<>>
    THEN [graph |-> g, out |-> create_unmapped_references(references)]
    ELSE mapping_result(build_graph(graph_clear(g), references, figures), references)

\* FigureMapper.map_references_to_figures on a mapper whose graph is g:
\* the graph it leaves behind and the list it returns
map_references_to_figures(g, references, figures) ==
    IF references = <<>> \/ figures = <<>>
    THEN [graph |-> graph_clear(g), out |-> create_unmapped_references(references)]
    ELSE mapping_result(build_graph(graph_clear(g), references, figures), references)


(***************************************************************************)
(* Inputs.  The references and figures a caller can pass are drawn from    *)
(* two catalogues of concrete dicts, taken from the demo at the end of     *)
(* figure_mapper.py and extended with the cases the mapper distinguishes.  *)
(* A reference is what ReferenceExtractor.extract_references emits         *)
(* ({text, bbox, reference_type, page_idx}); a figure is what process_pdf  *)
(* appends to result['figures'], the demo figures carrying no bbox.        *)
(***************************************************************************)
Reference(text, bbox, reference_type, page_idx) ==
    [text |-> text, bbox |-> bbox, reference_type |-> reference_type, page_idx |-> page_idx]

Figure(figure_id, type, text, page_idx, bbox, reference_type) ==
    [figure_id |-> figure_id, type |-> type, text |-> text, page_idx |-> page_idx,
     bbox |-> bbox, reference_type |-> reference_type]

ref_fig   == Reference(T_Fig, BBox(100, 100, 50, 20), "figure", 0)
ref_paren == Reference(T_Paren, BBox(200, 100, 30, 20), "equation", 0)
ref_table == Reference(T_Table, BBox(400, 100, 60, 20), "table", 0)
ref_ex    == Reference(T_Ex, BBox(300, 100, 40, 20), "example", 1)
ref_alg   == Reference(T_Alg, BBox(510, 100, 45, 20), "algorithm", 0)
ref_figs  == Reference(T_Figs, BBox(100, 200, 40, 20), "combined", 0)

fig_figure  == Figure(T_231, T_figure, T_FigureCaption, 0, EmptyDict, "figure")
fig_formula == Figure(T_231, T_formula, T_EquationCaption, 0, EmptyDict, "equation")
fig_table   == Figure(T_231, T_table, T_TableCaption, 0, EmptyDict, "table")
fig_same    == Figure(T_9, T_image, T_FIG, 0, BBox(100, 400, 50, 20), "figure")
fig_near    == Figure(T_5, T_image, <<>>, 1, BBox(400, 100, 65, 20), "figure")
\* an equation number as FigureIDGenerator.generate_figure_info describes it:
\* layout type 'number', reference_type 'equation', the ID of the pattern \((\d+(?:\.\d+)*)\)
fig_number  == Figure(T_231, T_number, T_Paren, 0, EmptyDict, "equation")
\* two images without text in the same place, 30 pixels beside 'Fig. 2.31':
\* one numbered 2.31a, one numbered 2.31
fig_suffix  == Figure(T_231a, T_image, <<>>, 0, BBox(130, 100, 50, 20), "figure")
fig_beside  == Figure(T_231, T_image, <<>>, 0, BBox(130, 100, 50, 20), "figure")

\* the references in reading order: page, then line, then position in the line
RefList == <<ref_fig, ref_paren, ref_table, ref_alg, ref_figs, ref_ex>>
RefCat == Range(RefList)
FigCat == {fig_figure, fig_formula, fig_table, fig_same, fig_near, fig_number,
           fig_suffix, fig_beside}

\* longest reference list and figure list of a call
MaxRefs == 3
MaxFigs == 3

(***************************************************************************)
(* Documents.  A page of a document is what the page-local steps of        *)
(* process_pdf produce from the image of the page: the Figures (layout     *)
(* detection, FigureGrouper, FigureIDGenerator) and the References         *)
(* (ReferenceExtractor) of the page, or a failure.  The layout detector is *)
(* an external model; its output is the input chosen here.  The fields     *)
(* confidence, elements, grouping_method, id_source, page_size and blocks  *)
(* play no part in the mapping and are left out.                           *)
(***************************************************************************)
doc_fig_figure == Figure(T_231, T_figure, T_FigureCaption, 0,
                         BBox(100, 700, 50, 20), "figure")
doc_fig_table  == Figure(T_231, T_table, T_TableCaption, 0,
                         BBox(400, 700, 60, 20), "table")

\* the references a page can show, in reading order, and the Figures
DocRefList == <<ref_fig, ref_table>>
DocFigCat == {doc_fig_figure, doc_fig_table}

\* most pages of a document
MaxPages == 2

\* the elements of seq whose positions are in S, in the order of seq
RECURSIVE Sub(_, _, _)
Sub(seq, S, k) ==
    IF k > Len(seq) THEN <<>>
    ELSE (IF k \in S THEN <<seq[k]>> ELSE <<>>) \o Sub(seq, S, k + 1)

SubLists(seq) == {Sub(seq, S, 1) : S \in SUBSET DOMAIN seq}

\* what the page-local steps can make of a page: an exception ("error",
\* which leaves the Figures appended before it), a page whose image could not
\* be saved (image_path '') and shows nothing, or figures and references
PageContents ==
    {[kind |-> "error", figs |-> fs, refs |-> <<>>] :
        fs \in {<<>>} \cup {<<f>> : f \in DocFigCat}}
    \cup {[kind |-> "noimage", figs |-> <<>>, refs |-> <<>>]}
    \cup {[kind |-> "ok", figs |-> fs, refs |-> rs] :
             fs \in {<<>>} \cup {<<f>> : f \in DocFigCat}, rs \in SubLists(DocRefList)}

\* the records of a page carry the index of the page
OnPage(recs, page_idx) == [k \in DOMAIN recs |-> [recs[k] EXCEPT !.page_idx = page_idx]]

\* extract_references(text_blocks) without page_idx (analyze.py line 187)
WithoutPage(recs) ==
    [k \in DOMAIN recs |->
        [text |-> recs[k].text, bbox |-> recs[k].bbox,
         reference_type |-> recs[k].reference_type]]

\* concatenation of a list of lists
RECURSIVE Flatten(_)
Flatten(ll) == IF ll = <<>> THEN <<>> ELSE ll[1] \o Flatten(Tail(ll))

(***************************************************************************)
(* State.                                                                  *)
(***************************************************************************)
VARIABLES
    graph,          \* FigureMapper.graph (in a request: analyze.py's figure_mapper)
    node_counter,   \* FigureMapper.node_counter
    references,     \* the reference list of the last / next call
    figures,        \* the figure list of the last / next call
    called,         \* map_references_to_figures has returned for these lists
    returned,       \* the list it returned
    calls,          \* history: the calls made on the mapper, with their results
    doc_pc,         \* position of a request in post / _process_pdf / process_pdf
    doc,            \* history: the page contents detected so far
    n_pages,        \* number of page images of the document
    pages,          \* result['pages']
    result_figures, \* result['figures']
    all_references, \* result['all_references']
    mapping_statistics, \* result['mapping_statistics']
    mapping_failed, \* history: the mapping step of process_pdf raised
    proc_graph,     \* PDFProcessor.figure_mapper.graph
    api_idx,        \* _process_pdf: index of the next page of its loop
    all_figures,    \* _process_pdf: all_figures
    status,         \* HTTP status of the answer, 0 before
    box_a,          \* BoundingBox: self
    box_b,          \* BoundingBox: other
    measured,       \* iou and distance_to have returned for the two boxes
    iou_ab,         \* box_a.iou(box_b)
    distance_ab,    \* box_a.distance_to(box_b)
    gen_blocks,     \* the layout blocks handed to FigureIDGenerator, in order
    gen_page_idx,   \* the page of these blocks
    figure_infos,   \* what generate_figure_info returned for them so far
    request,        \* the upload of a POST /analyze as the handler sees it
    post_pc,        \* position of the handler post
    text_blocks,    \* the text blocks handed to ReferenceExtractor.extract_references
    extract_page_idx, \* its argument page_idx, NoPage for None
    extract_done,   \* extract_references has returned
    references_out, \* the list it returned
    spans,          \* history: block and matched span of each returned reference
    layout_blocks,  \* the layout blocks handed to FigureGrouper.group_figure_elements
    group_page_idx, \* its argument page_idx
    group_results,  \* the outcome of each call made with them so far
    groupers,       \* history: the FigureGrouper instance of each call
    first_abort,    \* history: the code of the api.abort raised inside the try block of post, 0 if none
    detected,       \* the layout blocks the detector reports for each page of a document
    fig_page_idx,   \* process_pdf: page_idx of the next iteration of the page loop
    fig_result,     \* process_pdf: result['figures'] as the page loop fills it
    pp_structure_instance, \* pdf_processor._pp_structure_instance, None before
    get_pc,         \* position of each request's thread in PDFProcessor.__init__
    new_instance,   \* the PPStructureV3 a thread has constructed and not yet stored
    constructed,    \* history: number of PPStructureV3 instances constructed
    pp_structure    \* PDFProcessor.pp_structure of each request's processor

mapper_vars == <<graph, node_counter, references, figures, called, returned, calls>>
doc_vars == <<doc_pc, doc, n_pages, pages, result_figures, all_references,
              mapping_statistics, mapping_failed, proc_graph, api_idx, all_figures, status>>
box_vars == <<box_a, box_b, measured, iou_ab, distance_ab>>
gen_vars == <<gen_blocks, gen_page_idx, figure_infos>>
post_vars == <<request, post_pc, first_abort>>
ext_vars == <<text_blocks, extract_page_idx, extract_done, references_out, spans>>
grp_vars == <<layout_blocks, group_page_idx, group_results, groupers>>
fig_vars == <<detected, fig_page_idx, fig_result>>
pp_vars == <<pp_structure_instance, get_pc, new_instance, constructed, pp_structure>>
unit_vars == <<box_vars, gen_vars, post_vars, ext_vars, grp_vars, fig_vars, pp_vars>>
vars == <<mapper_vars, doc_vars, unit_vars>>

NumNodes(g) == Len(g.fig_nodes) + Len(g.ref_nodes)
NumEdges(g) == Len(Flatten(g.edges))

\* the history entry of a call on a mapper whose graph was g
CallRecord(g, refs, figs, r) ==
    [references |-> refs, figures |-> figs, returned |-> r.out,
     nodes_before |-> NumNodes(g),
     nodes_after |-> NumNodes(r.graph), edges_after |-> NumEdges(r.graph)]

\* no pair of boxes under measurement
BoxIdle ==
    /\ box_a = BBox(0, 0, 0, 0)
    /\ box_b = BBox(0, 0, 0, 0)
    /\ measured = FALSE
    /\ iou_ab = Zero
    /\ distance_ab = 0

\* no layout block under way to FigureIDGenerator
GenIdle ==
    /\ gen_blocks = <<>>
    /\ gen_page_idx = 0
    /\ figure_infos = <<>>

\* no POST /analyze under way
PostIdle ==
    /\ request = [has_file |-> FALSE, filename |-> <<>>, size |-> 0]
    /\ post_pc = "idle"
    /\ first_abort = 0

\* no layout block under way to FigureGrouper
GrpIdle ==
    /\ layout_blocks = <<>>
    /\ group_page_idx = 0
    /\ group_results = <<>>
    /\ groupers = <<>>

\* no text block under way to ReferenceExtractor
ExtIdle ==
    /\ text_blocks = <<>>
    /\ extract_page_idx = -1
    /\ extract_done = FALSE
    /\ references_out = <<>>
    /\ spans = <<>>

\* a constructed FigureMapper, a caller with nothing collected, no request
FigIdle ==
    /\ detected = <<>>
    /\ fig_page_idx = 0
    /\ fig_result = <<>>

PPIdle ==
    /\ pp_structure_instance = None
    /\ get_pc = <<>>
    /\ new_instance = <<>>
    /\ constructed = 0
    /\ pp_structure = <<>>

MapperIdle ==
    /\ graph = NewGraph
    /\ node_counter = 0
    /\ references = <<>>
    /\ figures = <<>>
    /\ called = FALSE
    /\ returned = <<>>
    /\ calls = <<>>
    /\ doc_pc = "start"
    /\ doc = <<>>
    /\ n_pages = 0
    /\ pages = <<>>
    /\ result_figures = <<>>
    /\ all_references = <<>>
    /\ mapping_statistics = <<>>
    /\ mapping_failed = FALSE
    /\ proc_graph = NewGraph
    /\ api_idx = 0
    /\ all_figures = <<>>
    /\ status = 0

Init ==
    /\ MapperIdle
    /\ FigIdle
    /\ PPIdle
    /\ BoxIdle
    /\ GenIdle
    /\ PostIdle
    /\ ExtIdle
    /\ GrpIdle

(***************************************************************************)
(* Specification Spec: a caller collects a reference list and a figure     *)
(* list and calls map_references_to_figures on a new FigureMapper.         *)
(***************************************************************************)
\* the caller collects one more reference, the k-th in reading order
\* (all_references.extend)
AddReference(k) ==
    /\ ~called
    /\ Len(references) < MaxRefs
    /\ \A j \in k..Len(RefList) : RefList[j] \notin Range(references)
    /\ references' = Append(references, RefList[k])
    /\ UNCHANGED <<graph, node_counter, figures, called, returned, calls, doc_vars, unit_vars>>

\* the caller collects one more figure (result['figures'].append)
AddFigure(f) ==
    /\ ~called
    /\ Len(figures) < MaxFigs
    /\ f \notin Range(figures)
    /\ figures' = Append(figures, f)
    /\ UNCHANGED <<graph, node_counter, references, called, returned, calls, doc_vars, unit_vars>>

\* the effect on the mapper of a call with the lists refs and figs that
\* ends with the result r
Returns(r, refs, figs) ==
    /\ graph' = r.graph
    /\ node_counter' = 0
    /\ references' = refs
    /\ figures' = figs
    /\ returned' = r.out
    /\ calls' = Append(calls, CallRecord(graph, refs, figs, r))
    /\ called' = TRUE

\* FigureMapper.map_references_to_figures(references, figures)
Map ==
    /\ ~called
    /\ Returns(map_references_to_figures(graph, references, figures), references, figures)
    /\ UNCHANGED <<doc_vars, unit_vars>>

Next ==
    \/ \E k \in DOMAIN RefList : AddReference(k)
    \/ \E f \in FigCat : AddFigure(f)
    \/ Map

Spec == Init /\ [][Next]_vars

(***************************************************************************)
(* Properties of one map_references_to_figures call (specification Spec).  *)
(***************************************************************************)
\* the type the mapper gives the i-th reference
RefType(i) == extract_typed_id_from_reference(references[i].text).ref_type

\* the inputs of the demo: 'Fig. 2.31', '(2.31)', 'Table 2.31' and the three
\* Figures of ID 2.31 and types figure, equation (formula), table, page 0
DemoCall ==
    /\ called
    /\ references = <<ref_fig, ref_paren, ref_table>>
    /\ Range(figures) = {fig_figure, fig_formula, fig_table}
    /\ Len(figures) = 3

\* C1: in the demo call each of the three references is returned matched,
\* with figure_id 2.31, through the Figure of its own reference type.
C1_DemoAllMatched ==
    DemoCall =>
        \A i \in DOMAIN returned :
            /\ returned[i].not_matched = FALSE
            /\ returned[i].figure_id = <<"2",".","3","1">>
            /\ \E k \in DOMAIN graph.edges[i] :
                  /\ graph.edges[i][k].to = <<"2",".","3","1">>
                  /\ graph.fig_attr[<<"2",".","3","1">>].fig_type = RefType(i)

\* the sum of a sequence of weights
RECURSIVE SumW(_)
SumW(ws) == IF ws = <<>> THEN Zero ELSE Plus(ws[1], SumW(Tail(ws)))

\* C2: the score by which a Figure is ranked for a reference is the sum of
\* the weights of all the relations added for the pair.
C2_ScoreIsSumOfRelations ==
    called =>
        \A i \in DOMAIN graph.edges : \A k \in DOMAIN graph.edges[i] :
            Eq(connected_figures(graph, i)[k].weight, SumW(graph.edges[i][k].log))

\* the compatibility of the claim: the same type, or figure for an example
\* or algorithm reference
Compatible(ref_type, fig_reference_type) ==
    \/ fig_reference_type = ref_type
    \/ ref_type \in {EXAMPLE, ALGORITHM} /\ fig_reference_type = FIGURE

\* C3: a matched reference is matched to a Figure whose reference_type is
\* compatible with the type of the reference (its own type, or figure for an
\* example or algorithm reference); a reference of unknown type is never
\* matched.  A figure_id names every input Figure that carries it.
C3_MatchesAreTypeCompatible ==
    called =>
        \A i \in DOMAIN returned :
            returned[i].not_matched = FALSE =>
                /\ RefType(i) # UNKNOWN
                /\ \E k \in DOMAIN figures :
                      /\ figures[k].figure_id = returned[i].figure_id
                      /\ Compatible(RefType(i), figures[k].reference_type)

\* C5: the returned list is as long as the reference list, its i-th element
\* has the text and bbox of the i-th reference, and each element is either
\* matched with a figure_id or not_matched, never both.
C5_OutputFollowsInput ==
    called =>
        /\ Len(returned) = Len(references)
        /\ \A i \in DOMAIN returned :
              /\ returned[i].text = references[i].text
              /\ returned[i].bbox = references[i].bbox
              /\ \/ returned[i].not_matched = FALSE /\ "figure_id" \in DOMAIN returned[i]
                 \/ returned[i].not_matched = TRUE /\ "figure_id" \notin DOMAIN returned[i]

\* witness of C5: a call with three references of which the middle one only
\* is unmatched
C5_Witness ==
    /\ called
    /\ Len(references) = 3
    /\ returned[1].not_matched = FALSE
    /\ returned[2].not_matched = TRUE
    /\ returned[3].not_matched = FALSE

\* the largest weight among the out-edges of reference i is w
BestWeightIs(i, w) ==
    /\ \E k \in DOMAIN graph.edges[i] : Eq(graph.edges[i][k].weight, w)
    /\ \A k \in DOMAIN graph.edges[i] : ~Gt(graph.edges[i][k].weight, w)

\* C6: a reference is matched exactly when its best Figure weighs strictly
\* more than 0.3, and then to a Figure of that weight: at exactly 0.3 it is
\* not_matched, at 0.31 it is matched.
C6_StrictThreshold ==
    (called /\ references # <<>> /\ figures # <<>>) =>
        \A i \in DOMAIN returned :
            /\ returned[i].not_matched = FALSE <=>
                  \E k \in DOMAIN graph.edges[i] : Gt(graph.edges[i][k].weight, W(3, 10))
            /\ returned[i].not_matched = FALSE =>
                  \E k \in DOMAIN graph.edges[i] :
                      /\ graph.edges[i][k].to = returned[i].figure_id
                      /\ BestWeightIs(i, graph.edges[i][k].weight)
            /\ BestWeightIs(i, W(3, 10)) => returned[i].not_matched = TRUE
            /\ BestWeightIs(i, W(31, 100)) => returned[i].not_matched = FALSE

\* witness of C6: one reference whose best weight is exactly 0.3 (a semantic
\* relation of similarity 1.0) and is not matched, and one whose best weight
\* is 0.31 and is matched
C6_Witness ==
    /\ called
    /\ references # <<>>
    /\ figures # <<>>
    /\ \E i \in DOMAIN returned :
          /\ BestWeightIs(i, W(3, 10))
          /\ \E k \in DOMAIN graph.edges[i] :
                graph.edges[i][k].relation = "semantic_typed"
                    /\ Eq(graph.edges[i][k].weight, W(3, 10))
          /\ returned[i].not_matched = TRUE
    /\ \E i \in DOMAIN returned :
          /\ BestWeightIs(i, W(31, 100))
          /\ returned[i].not_matched = FALSE

\* C9: every returned reference keeps text, bbox, page_idx and
\* reference_type of the input reference and carries not_matched.
C9_ReferencesAreAnnotated ==
    called =>
        \A i \in DOMAIN returned :
            /\ returned[i].text = references[i].text
            /\ returned[i].bbox = references[i].bbox
            /\ "not_matched" \in DOMAIN returned[i]
            /\ "page_idx" \in DOMAIN returned[i]
            /\ "reference_type" \in DOMAIN returned[i]
            /\ returned[i].page_idx = references[i].page_idx
            /\ returned[i].reference_type = references[i].reference_type

\* C17: after a call that builds the graph, the graph holds one figure node
\* per input Figure, each with the type, page and text of that Figure.
C17_OneNodePerFigure ==
    (called /\ references # <<>> /\ figures # <<>>) =>
        /\ Len(graph.fig_nodes) = Len(figures)
        /\ \A k \in DOMAIN figures :
              \E n \in DOMAIN graph.fig_nodes :
                  /\ graph.fig_nodes[n] = figures[k].figure_id
                  /\ graph.fig_attr[graph.fig_nodes[n]].data = figures[k]

\* an ID-match relation (weight 0.9) was added for reference i and a Figure
\* whose figure_id is the ID of the reference
HasIdMatch(i) ==
    \E k \in DOMAIN graph.edges[i] :
        /\ graph.edges[i][k].to = graph.ref_nodes[i].ref_id
        /\ graph.edges[i][k].log[1] = W(9, 10)

\* C18: a reference whose ID is the figure_id of a type-compatible Figure,
\* so that an ID-match relation was added for the pair, is returned matched.
C18_IdMatchIsMatched ==
    (called /\ references # <<>> /\ figures # <<>>) =>
        \A i \in DOMAIN returned :
            HasIdMatch(i) => returned[i].not_matched = FALSE

\* fig_id is the ID n followed by one or more letters
IsSuffixed(fig_id, n) ==
    /\ n # None
    /\ Len(fig_id) > Len(n)
    /\ SubSeq(fig_id, 1, Len(n)) = n
    /\ \A k \in (Len(n) + 1)..Len(fig_id) :
          fig_id[k] \in Range(LowerAlpha) \cup Range(UpperAlpha)

\* C19: a reference with ID n has an ID-match relation to every
\* type-compatible Figure whose figure_id is n followed by letters.
C19_SuffixedIdMatches ==
    (called /\ references # <<>> /\ figures # <<>>) =>
        \A i \in DOMAIN references : \A k \in DOMAIN figures :
            ( /\ IsSuffixed(figures[k].figure_id, graph.ref_nodes[i].ref_id)
              /\ is_type_compatible(graph.ref_nodes[i].ref_type,
                                    get_figure_type(figures[k])) )
            => \E e \in DOMAIN graph.edges[i] :
                  /\ graph.edges[i][e].to = figures[k].figure_id
                  /\ graph.edges[i][e].log[1] = W(9, 10)

\* the weight with which the Figure of ID fig_id is ranked for reference i
\* (total_weight of _infer_relationships), Zero without relation
TotalWeight(i, fig_id) ==
    IF \E e \in DOMAIN graph.edges[i] : graph.edges[i][e].to = fig_id
    THEN graph.edges[i][CHOOSE e \in DOMAIN graph.edges[i] :
                            graph.edges[i][e].to = fig_id].weight
    ELSE Zero

\* C20: a matched reference is matched to the first Figure of the figure
\* list among the Figures of the largest weight.
C20_TieGoesToFirstFigure ==
    (called /\ references # <<>> /\ figures # <<>>) =>
        \A i \in DOMAIN returned :
            returned[i].not_matched = FALSE =>
                \A k \in DOMAIN figures :
                    Eq(TotalWeight(i, figures[k].figure_id),
                       TotalWeight(i, returned[i].figure_id))
                    => \E j \in 1..k : figures[j].figure_id = returned[i].figure_id


(***************************************************************************)
(* Specification SpecDoc: one request.  AnalyzeAPI.post hands the file to  *)
(* _process_pdf, which runs PDFProcessor.process_pdf and then its own loop *)
(* over the pages with its own FigureMapper (graph).                       *)
(***************************************************************************)
\* process_pdf, lines 134-137: the page images; none is an error
ExtractPdfData(n) ==
    /\ doc_pc = "start"
    /\ n_pages' = n
    /\ doc_pc' = IF n = 0 THEN "pdf_error" ELSE "pages"
    /\ UNCHANGED <<unit_vars, mapper_vars, doc, pages, result_figures, all_references,
                   mapping_statistics, mapping_failed, proc_graph, api_idx,
                   all_figures, status>>

\* process_pdf, lines 149-227: one iteration of the page loop
ProcessPage(c) ==
    /\ doc_pc = "pages"
    /\ Len(pages) < n_pages
    /\ LET page_idx == Len(pages) IN
       CASE c.kind = "error" ->
              /\ result_figures' = result_figures \o OnPage(c.figs, page_idx)
              /\ pages' = Append(pages, [index |-> page_idx, references |-> <<>>])
              /\ UNCHANGED all_references
         [] c.kind = "noimage" ->
              /\ pages' = Append(pages, [index |-> page_idx, image_path |-> "",
                                         references |-> <<>>])
              /\ UNCHANGED <<result_figures, all_references>>
         [] c.kind = "ok" ->
              /\ result_figures' = result_figures \o OnPage(c.figs, page_idx)
              /\ all_references' = all_references \o OnPage(c.refs, page_idx)
              /\ pages' = Append(pages, [index |-> page_idx, image_path |-> "page.png",
                                         references |-> OnPage(c.refs, page_idx)])
    /\ doc' = Append(doc, c)
    /\ UNCHANGED <<unit_vars, mapper_vars, doc_pc, n_pages, mapping_statistics, mapping_failed,
                   proc_graph, api_idx, all_figures, status>>

\* process_pdf, lines 245-252: the mapped references go back to the pages
RECURSIVE reassign(_, _, _, _)
reassign(ps, k, ref_idx, all_mapped_references) ==
    IF k > Len(ps) THEN ps
    ELSE LET num_refs == Len(Get(ps[k], "references", <<>>)) IN
         IF num_refs > 0 /\ ref_idx < Len(all_mapped_references)
         THEN reassign([ps EXCEPT ![k].references =
                           SubSeq(all_mapped_references, ref_idx + 1,
                                  IF ref_idx + num_refs <= Len(all_mapped_references)
                                  THEN ref_idx + num_refs
                                  ELSE Len(all_mapped_references))],
                       k + 1, ref_idx + num_refs, all_mapped_references)
         ELSE reassign([ps EXCEPT ![k].references = <<>>],
                       k + 1, ref_idx, all_mapped_references)

\* number of references of a list that are matched: not ref.get('not_matched', True)
matched_count(refs) ==
    Cardinality({k \in DOMAIN refs : ~Get(refs[k], "not_matched", TRUE)})

\* a mapping step that gives every page the first resolved references
Mapped_from_first(r) ==
    /\ proc_graph' = r.graph
    /\ pages' = [k \in DOMAIN pages |->
                    [pages[k] EXCEPT !.references =
                        SubSeq(r.out, 1, Len(Get(pages[k], "references", <<>>)))]]
    /\ mapping_statistics' =
          [total_references |-> Len(r.out),
           matched_references |-> matched_count(r.out),
           unmatched_references |-> Len(r.out) - matched_count(r.out)]

\* process_pdf, lines 234-268: what the mapping step does with the result r
\* of the mapper
Mapped(r) ==
    /\ proc_graph' = r.graph
    /\ pages' = reassign(pages, 1, 0, r.out)
    /\ mapping_statistics' =
          [total_references |-> Len(r.out),
           matched_references |-> matched_count(r.out),
           unmatched_references |-> Len(r.out) - matched_count(r.out)]

\* process_pdf, lines 232-295: the mapping step when nothing raises.
\* del result['all_references'] leaves the empty list here.
MapReferences ==
    /\ doc_pc = "pages"
    /\ Len(pages) = n_pages
    /\ Mapped(map_references_to_figures(proc_graph, all_references, result_figures))
    /\ all_references' = <<>>
    /\ doc_pc' = "pdf_done"
    /\ UNCHANGED <<unit_vars, mapper_vars, doc, n_pages, result_figures, mapping_failed,
                   api_idx, all_figures, status>>

\* process_pdf, lines 297-310: graph construction or inference raises (any
\* exception: the handler catches Exception); both lists are non-empty then.
\* The graph was cleared before it raised and is not used again.
MapReferencesRaises ==
    /\ doc_pc = "pages"
    /\ Len(pages) = n_pages
    /\ all_references # <<>>
    /\ result_figures # <<>>
    /\ proc_graph' = graph_clear(proc_graph)
    /\ all_references' = <<>>
    /\ mapping_statistics' = [total_references |-> 0, matched_references |-> 0,
                              unmatched_references |-> 0]
    /\ mapping_failed' = TRUE
    /\ doc_pc' = "pdf_done"
    /\ UNCHANGED <<unit_vars, mapper_vars, doc, n_pages, pages, result_figures, api_idx,
                   all_figures, status>>

\* _process_pdf, lines 150-151, and post, lines 112-115: process_pdf
\* returned {'error': ...}
ApiPdfError ==
    /\ doc_pc = "pdf_error"
    /\ status' = 500
    /\ doc_pc' = "responded"
    /\ UNCHANGED <<unit_vars, mapper_vars, doc, n_pages, pages, result_figures, all_references,
                   mapping_statistics, mapping_failed, proc_graph, api_idx, all_figures>>

\* _process_pdf, line 167: page['image_path'] of a page that failed in
\* process_pdf raises KeyError
ApiPageKeyError ==
    /\ doc_pc = "pdf_done"
    /\ api_idx < Len(pages)
    /\ "image_path" \notin DOMAIN pages[api_idx + 1]
    /\ status' = 500
    /\ doc_pc' = "responded"
    /\ UNCHANGED <<unit_vars, mapper_vars, doc, n_pages, pages, result_figures, all_references,
                   mapping_statistics, mapping_failed, proc_graph, api_idx, all_figures>>

\* _process_pdf, lines 167-168: a page without image is skipped
ApiPageSkip ==
    /\ doc_pc = "pdf_done"
    /\ api_idx < Len(pages)
    /\ "image_path" \in DOMAIN pages[api_idx + 1]
    /\ pages[api_idx + 1].image_path = ""
    /\ api_idx' = api_idx + 1
    /\ UNCHANGED <<unit_vars, mapper_vars, doc_pc, doc, n_pages, pages, result_figures,
                   all_references, mapping_statistics, mapping_failed, proc_graph,
                   all_figures, status>>

\* _process_pdf, line 171: the layout detector raises
ApiPageDetectRaises ==
    /\ doc_pc = "pdf_done"
    /\ api_idx < Len(pages)
    /\ "image_path" \in DOMAIN pages[api_idx + 1]
    /\ pages[api_idx + 1].image_path # ""
    /\ status' = 500
    /\ doc_pc' = "responded"
    /\ UNCHANGED <<unit_vars, mapper_vars, doc, n_pages, pages, result_figures, all_references,
                   mapping_statistics, mapping_failed, proc_graph, api_idx, all_figures>>

\* _process_pdf, lines 190-195: the references refs of the page are resolved
\* against figs, the figures collected so far
PageMapped(refs, figs) ==
    /\ all_figures' = figs
    /\ Returns(map_references_to_figures(graph, refs, figs), refs, figs)
    /\ pages' = [pages EXCEPT ![api_idx + 1].references = returned']

\* _process_pdf, lines 171-195: the detector shows again what it showed of
\* this image in process_pdf; every figure of the page is one layout block
\* whose generate_figure_info is the Figure of process_pdf; the references
\* are extracted without page_idx and resolved against all_figures
ApiPageMap ==
    /\ doc_pc = "pdf_done"
    /\ api_idx < Len(pages)
    /\ "image_path" \in DOMAIN pages[api_idx + 1]
    /\ pages[api_idx + 1].image_path # ""
    /\ PageMapped(WithoutPage(doc[api_idx + 1].refs),
                  all_figures \o OnPage(doc[api_idx + 1].figs, pages[api_idx + 1].index))
    /\ api_idx' = api_idx + 1
    /\ UNCHANGED <<unit_vars, doc_pc, doc, n_pages, result_figures, all_references,
                   mapping_statistics, mapping_failed, proc_graph, status>>

\* _process_pdf, lines 198-200, and post, line 110
ApiReturn ==
    /\ doc_pc = "pdf_done"
    /\ api_idx = Len(pages)
    /\ result_figures' = all_figures
    /\ status' = 200
    /\ doc_pc' = "responded"
    /\ UNCHANGED <<unit_vars, mapper_vars, doc, n_pages, pages, all_references,
                   mapping_statistics, mapping_failed, proc_graph, api_idx, all_figures>>

NextDoc ==
    \/ \E n \in 0..MaxPages : ExtractPdfData(n)
    \/ \E c \in PageContents : ProcessPage(c)
    \/ MapReferences
    \/ MapReferencesRaises
    \/ ApiPdfError
    \/ ApiPageKeyError
    \/ ApiPageSkip
    \/ ApiPageDetectRaises
    \/ ApiPageMap
    \/ ApiReturn

SpecDoc == Init /\ [][NextDoc]_vars

(***************************************************************************)
(* Properties of one request (specification SpecDoc).                      *)
(***************************************************************************)
\* the figure_id / not_matched assignments of a returned list
Assignments(out) ==
    [i \in DOMAIN out |->
        [figure_id   |-> Get(out[i], "figure_id", None),
         not_matched |-> Get(out[i], "not_matched", None)]]

\* C4: a call with an empty reference list or an empty figure list leaves
\* the graph without nodes and edges and returns every input reference
\* with not_matched = true and without figure_id.
C4_EmptyInputBuildsNoGraph ==
    \A k \in DOMAIN calls :
        (calls[k].references = <<>> \/ calls[k].figures = <<>>) =>
            /\ calls[k].nodes_after = 0
            /\ calls[k].edges_after = 0
            /\ Len(calls[k].returned) = Len(calls[k].references)
            /\ \A i \in DOMAIN calls[k].returned :
                  /\ calls[k].returned[i].text = calls[k].references[i].text
                  /\ calls[k].returned[i].not_matched = TRUE
                  /\ "figure_id" \notin DOMAIN calls[k].returned[i]

\* witness of C4: a call without references, and with figures, on a mapper
\* whose graph held the nodes of an earlier call and holds none afterwards
C4_Witness ==
    \E k \in DOMAIN calls :
        /\ calls[k].references = <<>>
        /\ calls[k].figures # <<>>
        /\ calls[k].nodes_before > 0
        /\ calls[k].nodes_after = 0

\* C7: every call returns the assignments that a new mapper returns for the
\* same references and figures, and two calls with the same references and
\* figures return the same assignments.
C7_IndependentOfHistory ==
    \A k \in DOMAIN calls :
        /\ Assignments(calls[k].returned) =
              Assignments(map_references_to_figures(NewGraph, calls[k].references,
                                                    calls[k].figures).out)
        /\ \A j \in DOMAIN calls :
              (calls[j].references = calls[k].references
                  /\ calls[j].figures = calls[k].figures)
              => Assignments(calls[j].returned) = Assignments(calls[k].returned)

\* witness of C7: a call that matched its first reference, followed on the
\* same mapper by a call with another first reference, which is not matched,
\* and by no other figures
C7_Witness ==
    /\ Len(calls) = 2
    /\ calls[1].references # <<>>
    /\ calls[2].references # <<>>
    /\ calls[1].references[1] # calls[2].references[1]
    /\ calls[1].figures = calls[2].figures
    /\ calls[1].returned[1].not_matched = FALSE
    /\ calls[2].returned[1].not_matched = TRUE
    /\ calls[2].nodes_before > 0

\* the References and the Figures of all pages of the document
DocReferences == Flatten([k \in DOMAIN doc |-> OnPage(doc[k].refs, k - 1)])
DocFigures == Flatten([k \in DOMAIN doc |-> OnPage(doc[k].figs, k - 1)])

\* C8: the references returned for the pages are those of one resolution of
\* all references of the document against the Figures of all its pages.
C8_ResolvedOnceAgainstAllPages ==
    (doc_pc = "responded" /\ status = 200 /\ ~mapping_failed) =>
        Assignments(Flatten([k \in DOMAIN pages |-> pages[k].references]))
            = Assignments(map_references_to_figures(NewGraph, DocReferences,
                                                    DocFigures).out)

\* C10: when the mapping step of process_pdf has raised, the result it
\* returns has every reference of every page marked not_matched = true.
C10_FailedMappingMarksAllUnmatched ==
    (doc_pc = "pdf_done" /\ api_idx = 0 /\ mapping_failed) =>
        \A k \in DOMAIN pages : \A i \in DOMAIN pages[k].references :
            /\ "not_matched" \in DOMAIN pages[k].references[i]
            /\ pages[k].references[i].not_matched = TRUE


(***************************************************************************)
(* BoundingBox of figure_grouper.py: integer boxes {x, y, width, height}.  *)
(* iou is an exact rational; distance_to is the integer part of the        *)
(* Euclidean distance (the distance itself when it is a whole number).     *)
(***************************************************************************)
Max2(a, b) == IF a >= b THEN a ELSE b
Min2(a, b) == IF a <= b THEN a ELSE b
Abs(a) == IF a >= 0 THEN a ELSE -a

\* BoundingBox.x2, y2, center_x, center_y, area
x2(b) == b.x + b.width
y2(b) == b.y + b.height
center_x(b) == b.x + (b.width \div 2)
center_y(b) == b.y + (b.height \div 2)
area(b) == b.width * b.height

\* BoundingBox.iou
iou(self, other) ==
    LET ix1 == Max2(self.x, other.x)
        iy1 == Max2(self.y, other.y)
        ix2 == Min2(x2(self), x2(other))
        iy2 == Min2(y2(self), y2(other))
        intersection == (ix2 - ix1) * (iy2 - iy1)
        union == area(self) + area(other) - intersection
    IN IF ix2 < ix1 \/ iy2 < iy1 THEN Zero
       ELSE IF union > 0 THEN W(intersection, union) ELSE Zero

\* BoundingBox.distance_to
distance_to(self, other) ==
    IF ~(x2(self) < other.x \/ x2(other) < self.x \/
         y2(self) < other.y \/ y2(other) < self.y)
    THEN 0
    ELSE LET dx == Max2(0, Max2(self.x - x2(other), other.x - x2(self)))
             dy == Max2(0, Max2(self.y - y2(other), other.y - y2(self)))
         IN ISqrt(dx * dx + dy * dy)

\* BoundingBox.vertical_overlap, horizontal_overlap
vertical_overlap(self, other) == ~(y2(self) < other.y \/ y2(other) < self.y)
horizontal_overlap(self, other) == ~(x2(self) < other.x \/ x2(other) < self.x)

\* BoundingBox.is_above, is_below
is_above(self, other, thr) ==
    y2(self) < other.y /\ Abs(center_x(self) - center_x(other)) < thr
is_below(self, other, thr) ==
    self.y > y2(other) /\ Abs(center_x(self) - center_x(other)) < thr

(***************************************************************************)
(* Specification SpecBox: two boxes with coordinates and sizes up to       *)
(* MaxCoord are measured against each other.                               *)
(***************************************************************************)
MaxCoord == 2

Boxes == {BBox(x, y, w, h) : x \in 0..MaxCoord, y \in 0..MaxCoord,
                             w \in 0..MaxCoord, h \in 0..MaxCoord}

InitBox ==
    /\ MapperIdle
    /\ FigIdle
    /\ PPIdle
    /\ GenIdle
    /\ PostIdle
    /\ ExtIdle
    /\ GrpIdle
    /\ box_a \in Boxes
    /\ box_b \in Boxes
    /\ measured = FALSE
    /\ iou_ab = Zero
    /\ distance_ab = 0

\* box_a.iou(box_b) and box_a.distance_to(box_b)
Measure ==
    /\ ~measured
    /\ iou_ab' = iou(box_a, box_b)
    /\ distance_ab' = distance_to(box_a, box_b)
    /\ measured' = TRUE
    /\ UNCHANGED <<box_a, box_b, gen_vars, post_vars, ext_vars, grp_vars, fig_vars, pp_vars, mapper_vars, doc_vars>>

NextBox == Measure

SpecBox == InitBox /\ [][NextBox]_vars

\* the area of the intersection of two boxes, by the extent of the overlap
\* on each axis
Extent(lo1, hi1, lo2, hi2) == Max2(0, Min2(hi1, hi2) - Max2(lo1, lo2))
IntersectionArea(a, b) ==
    Extent(a.x, x2(a), b.x, x2(b)) * Extent(a.y, y2(a), b.y, y2(b))

\* C15: boxes that do not overlap (their intersection has zero area, boxes
\* that only touch included) have iou 0 and a distance above 0.
C15_DisjointBoxes ==
    (measured /\ IntersectionArea(box_a, box_b) = 0) =>
        /\ Eq(iou_ab, Zero)
        /\ distance_ab > 0

(***************************************************************************)
(* FigureIDGenerator (figure_id_generator.py).  The reference types are    *)
(* the strings of ReferenceType; layout types, texts and IDs are character *)
(* sequences.                                                              *)
(***************************************************************************)
T_figure_title   == <<"f","i","g","u","r","e","_","t","i","t","l","e">>
T_figure_caption == <<"f","i","g","u","r","e","_","c","a","p","t","i","o","n">>
T_table_caption  == <<"t","a","b","l","e","_","c","a","p","t","i","o","n">>
T_algorithm      == <<"a","l","g","o","r","i","t","h","m">>
T_chart          == <<"c","h","a","r","t">>
T_graph          == <<"g","r","a","p","h">>
T_diagram        == <<"d","i","a","g","r","a","m">>
T_text           == <<"t","e","x","t">>
T_TableOfResults == <<" ","T","a","b","l","e"," ","o","f"," ","r","e","s","u","l","t","s"," ">>

\* FigureIDGenerator.compiled_patterns: the patterns of typed_id_patterns in
\* the order of the dict, with the type each maps to.  The patterns are
\* compiled with re.IGNORECASE and are searched in the lower-case text.
typed_id_patterns == <<
    [mapped_type |-> FIGURE,    p |-> KwPat(<<"f","i","g">>, <<"u","r","e">>, FALSE)],
    [mapped_type |-> FIGURE,    p |-> KwPat(<<"<geu>","<rim>">>, <<>>, FALSE)],
    [mapped_type |-> TABLE,     p |-> KwPat(<<"t","a","b">>, <<"l","e">>, FALSE)],
    [mapped_type |-> TABLE,     p |-> KwPat(<<"<pyo>">>, <<>>, FALSE)],
    [mapped_type |-> EQUATION,  p |-> KwPat(<<"e","q">>, <<"u","a","t","i","o","n">>, TRUE)],
    [mapped_type |-> EQUATION,  p |-> KwPat(<<"e","q">>, <<"u","a","t","i","o","n">>, FALSE)],
    [mapped_type |-> EQUATION,  p |-> KwPat(<<"<sik>">>, <<>>, TRUE)],
    [mapped_type |-> EQUATION,  p |-> KwPat(<<"<su>","<sik>">>, <<>>, FALSE)],
    [mapped_type |-> EQUATION,  p |-> KwPat(<<"f","o","r","m","u","l","a">>, <<>>, FALSE)],
    [mapped_type |-> EQUATION,  p |-> ParenPat],
    [mapped_type |-> EXAMPLE,   p |-> KwPat(<<"e","x">>, <<"a","m","p","l","e">>, FALSE)],
    [mapped_type |-> EXAMPLE,   p |-> KwPat(<<"<ye>","<je>">>, <<>>, FALSE)],
    [mapped_type |-> ALGORITHM, p |-> KwPat(<<"a","l","g">>, <<"o","r","i","t","h","m">>, FALSE)],
    [mapped_type |-> ALGORITHM, p |-> KwPat(<<"<al>","<go>","<ri>","<jeum>">>, <<>>, FALSE)],
    [mapped_type |-> FIGURE,    p |-> KwPat(<<"c","h","a","r","t">>, <<>>, FALSE)],
    [mapped_type |-> FIGURE,    p |-> KwPat(<<"g","r","a","p","h">>, <<>>, FALSE)],
    [mapped_type |-> FIGURE,    p |-> KwPat(<<"d","i","a","g","r","a","m">>, <<>>, FALSE)],
    [mapped_type |-> FIGURE,    p |-> KwPat(<<"i","m","a","g","e">>, <<>>, FALSE)],
    [mapped_type |-> FIGURE,    p |-> KwPat(<<"p","i","c","t","u","r","e">>, <<>>, FALSE)] >>

\* FigureIDGenerator.layout_type_mapping
layout_type_mapping ==
    (T_figure :> FIGURE) @@ (T_figure_title :> FIGURE) @@ (T_figure_caption :> FIGURE)
    @@ (T_image :> FIGURE) @@ (T_table :> TABLE) @@ (T_table_caption :> TABLE)
    @@ (T_formula :> EQUATION) @@ (T_number :> EQUATION) @@ (T_algorithm :> ALGORITHM)
    @@ (T_chart :> FIGURE) @@ (T_graph :> FIGURE) @@ (T_diagram :> FIGURE)

\* str.strip()
RECURSIVE StripLeft(_)
StripLeft(t) == IF t # <<>> /\ IsSpace(t[1]) THEN StripLeft(Tail(t)) ELSE t

RECURSIVE StripRight(_)
StripRight(t) ==
    IF t # <<>> /\ IsSpace(t[Len(t)]) THEN StripRight(SubSeq(t, 1, Len(t) - 1)) ELSE t

Strip(t) == StripRight(StripLeft(t))

\* str(n) of an integer n >= 0
DigitChars == <<"0","1","2","3","4","5","6","7","8","9">>

RECURSIVE Str(_)
Str(n) ==
    IF n < 10 THEN <<DigitChars[n + 1]>>
    ELSE Str(n \div 10) \o <<DigitChars[(n % 10) + 1]>>

\* FigureIDGenerator._determine_reference_type
determine_reference_type(layout_type, text) ==
    LET layout_lower == Lower(layout_type)
        text_lower == Lower(text)
    IN  IF layout_lower \in DOMAIN layout_type_mapping THEN layout_type_mapping[layout_lower]
        ELSE IF AnyIn({<<"f","i","g">>, <<"f","i","g","u","r","e">>, <<"<geu>","<rim>">>}, text_lower) THEN FIGURE
        ELSE IF AnyIn({<<"t","a","b","l","e">>, <<"t","a","b">>, <<"<pyo>">>}, text_lower) THEN TABLE
        ELSE IF AnyIn({<<"e","q">>, <<"e","q","u","a","t","i","o","n">>, <<"f","o","r","m","u","l","a">>, <<"<sik>">>, <<"<su>","<sik>">>}, text_lower) THEN EQUATION
        ELSE IF AnyIn({<<"e","x","a","m","p","l","e">>, <<"e","x",".">>, <<"<ye>","<je>">>}, text_lower) THEN EXAMPLE
        ELSE IF AnyIn({<<"a","l","g","o","r","i","t","h","m">>, <<"a","l","g">>, <<"<al>","<go>","<ri>","<jeum>">>}, text_lower) THEN ALGORITHM
        ELSE FIGURE

\* the absent type (None)
NoType == "None"

\* FigureIDGenerator._extract_typed_figure_id: (figure_id, ref_type), None
\* for both when no pattern matches
RECURSIVE FirstIdMatch(_, _)
FirstIdMatch(text_lower, k) ==
    IF k > Len(typed_id_patterns) THEN [figure_id |-> None, ref_type |-> NoType]
    ELSE LET m == SearchFrom(text_lower, 1, typed_id_patterns[k].p) IN
         IF m.ok
         THEN [figure_id |-> Group1(text_lower, m),
               ref_type |-> typed_id_patterns[k].mapped_type]
         ELSE FirstIdMatch(text_lower, k + 1)

extract_typed_figure_id(text) ==
    IF text = <<>> THEN [figure_id |-> None, ref_type |-> NoType]
    ELSE FirstIdMatch(Lower(text), 1)

\* FigureIDGenerator._generate_fallback_id.type_prefix
type_prefix(ref_type) ==
    CASE ref_type = FIGURE    -> <<"f","i","g">>
      [] ref_type = TABLE     -> <<"t","a","b">>
      [] ref_type = EQUATION  -> <<"e","q">>
      [] ref_type = EXAMPLE   -> <<"e","x">>
      [] ref_type = ALGORITHM -> <<"a","l","g">>
      [] OTHER                -> <<"u","n","k">>

\* FigureIDGenerator._generate_fallback_id: f"{type_prefix}_{page_num}_{y_position}"
generate_fallback_id(ref_type, page_idx, bbox) ==
    type_prefix(ref_type) \o <<"_">> \o Str(page_idx) \o <<"_">> \o Str(Get(bbox, "y", 0))

\* generate_figure_info, lines 95-117, for the type ref_type of the layout
\* and the (figure_id, ref_type) extracted from the text
figure_info(layout_type, text, safe_bbox, page_idx, confidence, ref_type, extracted) ==
    [figure_id      |-> IF extracted.figure_id # None THEN extracted.figure_id
                        ELSE generate_fallback_id(
                                 IF extracted.ref_type # NoType THEN extracted.ref_type
                                 ELSE ref_type, page_idx, safe_bbox),
     type           |-> layout_type,
     reference_type |-> IF extracted.ref_type # NoType THEN extracted.ref_type ELSE ref_type,
     bbox           |-> safe_bbox,
     page_idx       |-> page_idx,
     text           |-> text,
     confidence     |-> confidence]

\* generate_figure_info, lines 76-86: the box with 0 for each missing value
safe_bbox(bbox) ==
    BBox(Get(bbox, "x", 0), Get(bbox, "y", 0), Get(bbox, "width", 0), Get(bbox, "height", 0))

\* generate_figure_info on the stripped text
figure_info_of(layout_type, text, layout_block, page_idx) ==
    figure_info(layout_type, text, safe_bbox(Get(layout_block, "bbox", EmptyDict)),
                page_idx, Get(layout_block, "confidence", 0),
                determine_reference_type(layout_type, text),
                extract_typed_figure_id(text))

\* FigureIDGenerator.generate_figure_info
generate_figure_info(layout_block, page_idx) ==
    figure_info_of(Get(layout_block, "type", T_figure),
                   Strip(Get(layout_block, "text", <<>>)), layout_block, page_idx)

(***************************************************************************)
(* Specification SpecIdGen: two layout blocks of one page are handed to    *)
(* generate_figure_info, one after the other.  A layout block is what the  *)
(* layout detector emits: {type, bbox, text, confidence}; confidence is in *)
(* percent.                                                                *)
(***************************************************************************)
LayoutBlock(type, bbox, text, confidence) ==
    [type |-> type, bbox |-> bbox, text |-> text, confidence |-> confidence]

GenTypes == {T_figure, T_image, T_table, T_formula, T_number, T_algorithm,
             T_figure_caption, T_text}
GenTexts == {<<>>, T_TableOfResults, T_FigureCaption}
GenYs == {100, 200}

GenBlocks == {LayoutBlock(type, BBox(100, y, 300, 200), text, 90) :
                 type \in GenTypes, y \in GenYs, text \in GenTexts}

InitIdGen ==
    /\ MapperIdle
    /\ FigIdle
    /\ PPIdle
    /\ BoxIdle
    /\ PostIdle
    /\ ExtIdle
    /\ GrpIdle
    /\ gen_blocks \in {<<b1, b2>> : b1 \in GenBlocks, b2 \in GenBlocks}
    /\ gen_page_idx \in 0..(MaxPages - 1)
    /\ figure_infos = <<>>

\* figure_id_generator.generate_figure_info(layout_block, page['index'])
GenerateFigureInfo ==
    /\ Len(figure_infos) < Len(gen_blocks)
    /\ figure_infos' = Append(figure_infos,
                              generate_figure_info(gen_blocks[Len(figure_infos) + 1],
                                                   gen_page_idx))
    /\ UNCHANGED <<gen_blocks, gen_page_idx, box_vars, post_vars, ext_vars, grp_vars, fig_vars, pp_vars, mapper_vars, doc_vars>>

NextIdGen == GenerateFigureInfo

SpecIdGen == InitIdGen /\ [][NextIdGen]_vars

\* the text of the block yields no ID
NoIdInText(block) == extract_typed_figure_id(Strip(block.text)).figure_id = None

\* C14: two layout blocks of one page whose texts yield no ID and whose
\* (layout type, bbox.y) pairs differ get different fallback figure_ids.
C14_FallbackIdsDiffer ==
    ( /\ Len(figure_infos) = 2
      /\ NoIdInText(gen_blocks[1])
      /\ NoIdInText(gen_blocks[2])
      /\ <<gen_blocks[1].type, gen_blocks[1].bbox.y>>
            # <<gen_blocks[2].type, gen_blocks[2].bbox.y>> )
    => figure_infos[1].figure_id # figure_infos[2].figure_id

(***************************************************************************)
(* Specification SpecPost: AnalyzeAPI.post (analyze.py), one request.      *)
(* api.abort(code) raises an HTTPException, which is an Exception: raised  *)
(* inside the try block of post it is caught by `except Exception` (line   *)
(* 117), whose api.abort(500) is raised outside the try block and becomes  *)
(* the answer.  File sizes are in megabytes.                               *)
(***************************************************************************)
\* Config.MAX_CONTENT_LENGTH, in megabytes
MAX_CONTENT_LENGTH == 50

\* Config.ALLOWED_EXTENSIONS
ALLOWED_EXTENSIONS == { <<"p","d","f">> }

\* the uploads: file names and sizes
T_a_pdf     == <<"a",".","p","d","f">>
T_A_PDF     == <<"A",".","P","D","F">>
T_a_txt     == <<"a",".","t","x","t">>
T_pdf       == <<"p","d","f">>
T_a_pdf_exe == <<"a",".","p","d","f",".","e","x","e">>
T_dot_pdf   == <<".","p","d","f">>

Filenames == {<<>>, T_a_pdf, T_A_PDF, T_a_txt, T_pdf, T_a_pdf_exe, T_dot_pdf}
Sizes == {0, 1, MAX_CONTENT_LENGTH, MAX_CONTENT_LENGTH + 1}

Requests == {[has_file |-> hf, filename |-> fn, size |-> sz] :
                hf \in BOOLEAN, fn \in Filenames, sz \in Sizes}

\* filename.rsplit('.', 1)[1] for a filename that holds a dot
AfterLastDot(filename) ==
    LET dot == CHOOSE i \in DOMAIN filename :
                   /\ filename[i] = "."
                   /\ \A j \in (i + 1)..Len(filename) : filename[j] # "."
    IN SubSeq(filename, dot + 1, Len(filename))

\* AnalyzeAPI._allowed_file
allowed_file(filename) ==
    /\ Contains(filename, <<".">>)
    /\ Lower(AfterLastDot(filename)) \in ALLOWED_EXTENSIONS

\* AnalyzeAPI._validate_file_size
validate_file_size(file) == file.size <= MAX_CONTENT_LENGTH

\* post, lines 79-92: the validation raises no api.abort(400)
Accepted(req) ==
    /\ req.has_file
    /\ req.filename # <<>>
    /\ allowed_file(req.filename)
    /\ validate_file_size(req)

InitPost ==
    /\ MapperIdle
    /\ FigIdle
    /\ PPIdle
    /\ BoxIdle
    /\ GenIdle
    /\ ExtIdle
    /\ GrpIdle
    /\ request \in Requests
    /\ post_pc = "received"
    /\ first_abort = 0

\* the handler ends with the answer code; abort is the code of the api.abort
\* raised inside its try block, 0 if none was
Answer(code, abort) ==
    /\ status' = code
    /\ first_abort' = abort
    /\ post_pc' = "responded"
    /\ UNCHANGED <<request, box_vars, gen_vars, ext_vars, grp_vars, fig_vars, pp_vars, mapper_vars, doc_pc, doc, n_pages, pages,
                   result_figures, all_references, mapping_statistics, mapping_failed,
                   proc_graph, api_idx, all_figures>>

\* post, lines 79-92 and 117-118: a validation calls api.abort(400) inside
\* the try block; the handler of line 117 catches it and calls api.abort(500)
PostRejected ==
    /\ post_pc = "received"
    /\ ~Accepted(request)
    /\ Answer(500, 400)

\* post, lines 95 and 117-118: _save_temp_file raises
PostSaveRaises ==
    /\ post_pc = "received"
    /\ Accepted(request)
    /\ Answer(500, 0)

\* post, lines 97-110: _process_pdf returns
PostProcessed ==
    /\ post_pc = "received"
    /\ Accepted(request)
    /\ Answer(200, 0)

\* post, lines 112-118: _process_pdf raises; api.abort(500) of line 115 is
\* raised inside the outer try block and caught at line 117
PostProcessRaises ==
    /\ post_pc = "received"
    /\ Accepted(request)
    /\ Answer(500, 500)

NextPost ==
    \/ PostRejected
    \/ PostSaveRaises
    \/ PostProcessed
    \/ PostProcessRaises

SpecPost == InitPost /\ [][NextPost]_vars

\* C16: a request without file, with an empty file name, with a file name
\* that does not end in .pdf or with a file over the size limit is answered
\* 400; only a request whose file was accepted is answered 500.
C16_InvalidUploadIs400 ==
    post_pc = "responded" =>
        /\ ( \/ ~request.has_file
             \/ request.filename = <<>>
             \/ ~allowed_file(request.filename)
             \/ request.size > MAX_CONTENT_LENGTH ) => status = 400
        /\ status = 500 => Accepted(request)

(***************************************************************************)
(* ReferenceExtractor                                                      *)
(***************************************************************************)
COMBINED == "combined"

\* The four shapes of ReferenceExtractor.typed_patterns, over lower-case text
\* (re.IGNORECASE), with N = \d+(?:\.\d+)* :
\*   "num"  \bKW\.?\s*N\b         "par"   \bKW\.?\s*\(N\)
\*   "lone" (?<!\w)\(N\)(?=\s|$|[,.])
\*   "comb" \bKWs?\.?\s*N(?:\s*(?:and|&|-|,)\s*N)*\b
RefPat(kind, kw) == [kind |-> kind, kw |-> kw]

\* ReferenceExtractor.all_patterns, in the order of typed_patterns
all_patterns == <<
    [pattern |-> RefPat("num", <<"f","i","g">>),       ref_type |-> FIGURE],
    [pattern |-> RefPat("num", <<"f","i","g","u","r","e">>),    ref_type |-> FIGURE],
    [pattern |-> RefPat("num", <<"f","i","g">>),       ref_type |-> FIGURE],
    [pattern |-> RefPat("num", <<"<geu>","<rim>">>),      ref_type |-> FIGURE],
    [pattern |-> RefPat("num", <<"t","a","b","l","e">>),     ref_type |-> TABLE],
    [pattern |-> RefPat("num", <<"t","a","b">>),       ref_type |-> TABLE],
    [pattern |-> RefPat("num", <<"<pyo>">>),        ref_type |-> TABLE],
    [pattern |-> RefPat("par", <<"e","q">>),        ref_type |-> EQUATION],
    [pattern |-> RefPat("par", <<"e","q","u","a","t","i","o","n">>),  ref_type |-> EQUATION],
    [pattern |-> RefPat("num", <<"e","q">>),        ref_type |-> EQUATION],
    [pattern |-> RefPat("num", <<"e","q","u","a","t","i","o","n">>),  ref_type |-> EQUATION],
    [pattern |-> RefPat("lone", <<>>),         ref_type |-> EQUATION],
    [pattern |-> RefPat("par", <<"<sik>">>),        ref_type |-> EQUATION],
    [pattern |-> RefPat("num", <<"<su>","<sik>">>),      ref_type |-> EQUATION],
    [pattern |-> RefPat("num", <<"e","x","a","m","p","l","e">>),   ref_type |-> EXAMPLE],
    [pattern |-> RefPat("num", <<"e","x">>),        ref_type |-> EXAMPLE],
    [pattern |-> RefPat("num", <<"<ye>","<je>">>),      ref_type |-> EXAMPLE],
    [pattern |-> RefPat("num", <<"<ye>">>),        ref_type |-> EXAMPLE],
    [pattern |-> RefPat("num", <<"a","l","g","o","r","i","t","h","m">>), ref_type |-> ALGORITHM],
    [pattern |-> RefPat("num", <<"a","l","g">>),       ref_type |-> ALGORITHM],
    [pattern |-> RefPat("num", <<"<al>","<go>","<ri>","<jeum>">>),  ref_type |-> ALGORITHM],
    [pattern |-> RefPat("comb", <<"f","i","g">>),      ref_type |-> COMBINED],
    [pattern |-> RefPat("comb", <<"t","a","b","l","e">>),    ref_type |-> COMBINED] >>

\* \b between position i - 1 and a word character at position i
WordStart(t, i) == i = 1 \/ ~IsWord(t[i - 1])

\* \b between a word character at position e - 1 and position e
WordEnd(t, e) == e > Len(t) \/ ~IsWord(t[e])

\* the position of the last "." of the number t[c..e-1], 0 if it has none:
\* where the number ends after (?:\.\d+)* gave back its last repetition
LastDot(t, c, e) ==
    IF \E p \in c..(e - 1) : t[p] = "."
    THEN CHOOSE p \in c..(e - 1) : t[p] = "." /\ \A q \in (p + 1)..(e - 1) : t[q] # "."
    ELSE 0

\* (?:and|&|-|,) at position c: the position after it, 0 if none
ConnectorEnd(t, c) ==
    IF HasAt(t, c, <<"a","n","d">>) THEN c + 3
    ELSE IF c <= Len(t) /\ t[c] \in {"&", "-", ","} THEN c + 1
    ELSE 0

\* N, then (when loop) any number of \s*(?:and|&|-|,)\s*N, then \b, at
\* position c, as the backtracking matcher finds it: the longest
\* continuation first, then the end of the number, then the number without
\* its last ".digits".  The result is the position after the match, 0 if
\* there is none.
RECURSIVE NumStop(_, _, _)
RECURSIVE Continue(_, _)
StopAfter(t, c, e, cont) ==
    IF cont # 0 THEN cont
    ELSE IF WordEnd(t, e) THEN e
    ELSE LastDot(t, c, e)

NumStopAt(t, c, e, loop) ==
    IF e = 0 THEN 0 ELSE StopAfter(t, c, e, IF loop THEN Continue(t, e) ELSE 0)

NumStop(t, c, loop) == NumStopAt(t, c, NumEnd(t, c), loop)

ContinueAt(t, c2) == IF c2 = 0 THEN 0 ELSE NumStop(t, SkipSpaces(t, c2), TRUE)

Continue(t, e) == ContinueAt(t, ConnectorEnd(t, SkipSpaces(t, e)))

\* the match that starts at i and stops before e, no match if e = 0
Stopped(i, e) ==
    IF e = 0 THEN NoMatch ELSE [ok |-> TRUE, start |-> i, stop |-> e, gs |-> 0, ge |-> 0]

\* the lookahead (?=\s|$|[,.]) at position e
LoneAhead(t, e) == e > Len(t) \/ t[e] \in Spaces \cup {",", "."}

LoneMatch(t, m) == IF m.ok /\ LoneAhead(t, m.stop) THEN m ELSE NoMatch

\* pattern.match of a pattern of all_patterns at position i
RefMatchAt(t, i, p) ==
    IF ~WordStart(t, i) THEN NoMatch
    ELSE IF p.kind = "lone" THEN LoneMatch(t, NumberAt(t, i, i, TRUE))
    ELSE IF ~HasAt(t, i, p.kw) THEN NoMatch
    ELSE IF p.kind = "par"
         THEN NumberAt(t, i, SkipSpaces(t, SkipDot(t, i + Len(p.kw))), TRUE)
    ELSE IF p.kind = "num"
         THEN Stopped(i, NumStop(t, SkipSpaces(t, SkipDot(t, i + Len(p.kw))), FALSE))
    ELSE Stopped(i, NumStop(t, SkipSpaces(t, SkipDot(t,
                    IF HasAt(t, i + Len(p.kw), <<"s">>) THEN i + Len(p.kw) + 1
                    ELSE i + Len(p.kw))), TRUE))

\* the leftmost match at or after position i
RECURSIVE RefSearchFrom(_, _, _)
RefOrFrom(m, t, i, p) == IF m.ok THEN m ELSE RefSearchFrom(t, i, p)

RefSearchFrom(t, i, p) ==
    IF i > Len(t) THEN NoMatch ELSE RefOrFrom(RefMatchAt(t, i, p), t, i + 1, p)

\* pattern.finditer: the matches from left to right, each search starting
\* where the previous match stopped (no pattern matches the empty string)
RECURSIVE FindIter(_, _, _)
IterFrom(m, t, p) == IF m.ok THEN <<m>> \o FindIter(t, m.stop, p) ELSE <<>>

FindIter(t, i, p) == IterFrom(RefSearchFrom(t, i, p), t, p)

\* lines 81-89: the matches of every pattern, pattern by pattern; start and
\* end are match.start() and match.end() (0-based, end exclusive)
MatchInfos(ms, ref_type) ==
    [k \in DOMAIN ms |-> [start |-> ms[k].start - 1, end |-> ms[k].stop - 1,
                          ref_type |-> ref_type]]

all_matches(t) ==
    Flatten([k \in DOMAIN all_patterns |->
                MatchInfos(FindIter(t, 1, all_patterns[k].pattern),
                           all_patterns[k].ref_type)])

\* line 92: list.sort(key = start), which is stable
RECURSIVE InsertByStart(_, _)
InsertByStart(sorted, m) ==
    IF sorted = <<>> THEN <<m>>
    ELSE IF sorted[Len(sorted)].start <= m.start THEN Append(sorted, m)
    ELSE Append(InsertByStart(SubSeq(sorted, 1, Len(sorted) - 1), m), sorted[Len(sorted)])

RECURSIVE SortByStart(_)
SortByStart(ms) ==
    IF ms = <<>> THEN <<>>
    ELSE InsertByStart(SortByStart(SubSeq(ms, 1, Len(ms) - 1)), ms[Len(ms)])

\* every sorted match kept
RECURSIVE select_all(_, _)
select_all(ms, last_end) ==
    IF ms = <<>> THEN <<>>
    ELSE <<ms[1]>> \o select_all(Tail(ms), ms[1].end)

\* lines 95-102: a match is kept when it starts at or after the end of the
\* last kept match
RECURSIVE select_matches(_, _)
select_matches(ms, last_end) ==
    IF ms = <<>> THEN <<>>
    ELSE IF ms[1].start >= last_end
         THEN <<ms[1]>> \o select_matches(Tail(ms), ms[1].end)
         ELSE select_matches(Tail(ms), last_end)

\* lines 81-102 for the text of one block
selected_matches(text) == select_matches(SortByStart(all_matches(Lower(text))), -1)

default_bbox == BBox(0, 0, 0, 0)

\* _estimate_ref_bbox.  char_width = text_width / text_length is a float in
\* the code; the blocks below have a width that is a multiple of the length
\* of their text, for which start_pos * char_width is the exact integer
\* computed here.
estimate_ref_bbox(text_bbox, full_text, start_pos, end_pos) ==
    IF text_bbox = EmptyDict \/ full_text = <<>> THEN default_bbox
    ELSE LET text_x == Get(text_bbox, "x", 0)
             text_width == Get(text_bbox, "width", 0)
             text_length == Len(full_text)
         IN [x      |-> Max2(0, text_x + (start_pos * text_width) \div text_length),
             y      |-> Get(text_bbox, "y", 0),
             width  |-> Max2(1, ((end_pos - start_pos) * text_width) \div text_length),
             height |-> Get(text_bbox, "height", 0)]

\* page_idx = None
NoPage == -1

\* lines 105-128: the reference of one selected match
reference_of(block, m, page_idx) ==
    LET base == [text           |-> SubSeq(block.text, m.start + 1, m.end),
                 bbox           |-> estimate_ref_bbox(Get(block, "bbox", EmptyDict),
                                                      block.text, m.start, m.end),
                 reference_type |-> m.ref_type]
    IN IF page_idx = NoPage THEN base
       ELSE [text |-> base.text, bbox |-> base.bbox,
             reference_type |-> base.reference_type, page_idx |-> page_idx]

\* a list element that is not a dict
NonDict == [not_a_dict |-> TRUE]

(***************************************************************************)
(* SpecExtract: one call of ReferenceExtractor.extract_references          *)
(***************************************************************************)
MaxBlocks == 2

T_FigAndEq   == <<"F","i","g","."," ","1"," ","a","n","d"," ","E","q","."," ","(","2",")">>
T_FigAnd2    == <<"F","i","g","."," ","1"," ","a","n","d"," ","2">>
T_Figs1And2  == <<"F","i","g","s","."," ","1"," ","a","n","d"," ","2">>
T_Fig12a     == <<"F","i","g","."," ","1",".","2","a">>
T_SeeParen   == <<"s","e","e"," ","(","3",")",","," ","T","a","b","l","e"," ","4",".">>
T_Hangul     == <<"<geu>","<rim>"," ","1",","," ","<pyo>"," ","2">>
T_NoRef      == <<"n","o"," ","r","e","f","e","r","e","n","c","e">>
T_Glued      == <<"x","F","i","g","."," ","1"," ","E","q",".","5">>
T_Tables     == <<"T","a","b","l","e","s"," ","1","-","3"," ","&"," ","5">>

FragTexts == {T_FigAndEq, T_FigAnd2, T_Figs1And2, T_Fig12a, T_SeeParen,
              T_Hangul, T_NoRef, T_Glued, T_Tables}

\* selected_matches of the texts above, computed once
selected_cache == [t \in FragTexts |-> selected_matches(t)]

Selected(text) ==
    IF text \in DOMAIN selected_cache THEN selected_cache[text]
    ELSE selected_matches(text)

\* a text block as PDFProcessor hands it over
TextBlock(text, bbox) == [text |-> text, bbox |-> bbox]

\* a block of ten units per character, a block without bbox, a block with
\* empty text and a list element that is not a dict
ExtBlocks ==
    {TextBlock(t, BBox(10, 20, 10 * Len(t), 12)) : t \in FragTexts \cup {<<>>}}
        \cup {[text |-> T_FigAndEq], NonDict}

RECURSIVE SeqsUpTo(_, _)
SeqsUpTo(S, n) ==
    IF n = 0 THEN {<<>>}
    ELSE LET shorter == SeqsUpTo(S, n - 1) IN
         shorter \cup {Append(s, x) : s \in {q \in shorter : Len(q) = n - 1}, x \in S}

\* lines 61-128 for block k: its references with the block and span of each
block_entries(blocks, k, page_idx, ms) ==
    [j \in DOMAIN ms |->
        [reference |-> reference_of(blocks[k], ms[j], page_idx),
         block |-> k, start |-> ms[j].start, end |-> ms[j].end]]

entries_of(blocks, k, page_idx) ==
    IF blocks[k] = NonDict THEN <<>>
    ELSE IF blocks[k].text = <<>> THEN <<>>
    ELSE block_entries(blocks, k, page_idx, Selected(blocks[k].text))

\* extract_references
extract_references(blocks, page_idx) ==
    Flatten([k \in DOMAIN blocks |-> entries_of(blocks, k, page_idx)])

InitExtract ==
    /\ MapperIdle
    /\ FigIdle
    /\ PPIdle
    /\ BoxIdle
    /\ GenIdle
    /\ PostIdle
    /\ GrpIdle
    /\ text_blocks \in SeqsUpTo(ExtBlocks, MaxBlocks)
    /\ extract_page_idx \in {NoPage} \cup (0..(MaxPages - 1))
    /\ extract_done = FALSE
    /\ references_out = <<>>
    /\ spans = <<>>

Recorded(entries) ==
    /\ references_out' = [k \in DOMAIN entries |-> entries[k].reference]
    /\ spans' = [k \in DOMAIN entries |->
                    [block |-> entries[k].block, start |-> entries[k].start,
                     end |-> entries[k].end]]

ExtractReferences ==
    /\ ~extract_done
    /\ extract_done' = TRUE
    /\ Recorded(extract_references(text_blocks, extract_page_idx))
    /\ UNCHANGED <<text_blocks, extract_page_idx, box_vars, gen_vars, post_vars,
                   grp_vars, fig_vars, pp_vars, mapper_vars, doc_vars>>

NextExtract == ExtractReferences

SpecExtract == InitExtract /\ [][NextExtract]_vars

\* the reference types emitted for block k, in the order of the result
RECURSIVE TypesOfBlock(_, _)
TypesOfBlock(k, a) ==
    IF a > Len(spans) THEN <<>>
    ELSE IF spans[a].block = k
         THEN <<references_out[a].reference_type>> \o TypesOfBlock(k, a + 1)
         ELSE TypesOfBlock(k, a + 1)

\* C13: the references of one text fragment come in increasing start offset
\* with pairwise non-overlapping spans, each reference carries the text of
\* its span, the references of an earlier fragment precede those of a later
\* fragment, and the fragment 'Fig. 1 and Eq. (2)' gives exactly two
\* references, a figure and then an equation.
C13_ReferencesInTextOrder ==
    extract_done =>
        /\ Len(spans) = Len(references_out)
        /\ \A a, b \in DOMAIN spans : a < b =>
              \/ spans[a].block < spans[b].block
              \/ /\ spans[a].block = spans[b].block
                 /\ spans[a].start < spans[b].start
                 /\ spans[a].end <= spans[b].start
        /\ \A a \in DOMAIN spans :
              /\ spans[a].start < spans[a].end
              /\ references_out[a].text =
                    SubSeq(text_blocks[spans[a].block].text, spans[a].start + 1, spans[a].end)
        /\ \A k \in DOMAIN text_blocks :
              (text_blocks[k] # NonDict /\ text_blocks[k].text = T_FigAndEq)
                  => TypesOfBlock(k, 1) = <<FIGURE, EQUATION>>

\* 'Fig. 1 and Eq. (2)' (whose lone '(2)' is inside 'Eq. (2)') was followed
\* by a second fragment that has references too
C13_Witness ==
    /\ extract_done
    /\ Len(text_blocks) = 2
    /\ text_blocks[1] # NonDict
    /\ text_blocks[1].text = T_FigAndEq
    /\ \E a \in DOMAIN spans : spans[a].block = 2
    /\ Len(spans) >= 3

(***************************************************************************)
(* FigureGrouper.  An element is the dict built by group_figure_elements,  *)
(* with idx, its position in layout_blocks, standing for the identity of   *)
(* the dict object; elements are equal (==) when their blocks are equal.   *)
(* A group is a list of idx.  Scores are in units of 1/3000.               *)
(***************************************************************************)
vertical_threshold == 50
horizontal_threshold == 100
alignment_threshold == 50

T_unknown == <<"u","n","k","n","o","w","n">>
T_example == <<"e","x","a","m","p","l","e">>

\* FigureGrouper.compiled_patterns; (?:Fig|Figure) is fig(?:ure)? and so on
id_patterns == <<
    [pattern |-> KwPat(<<"f","i","g">>, <<"u","r","e">>, FALSE),    fig_type |-> T_figure],
    [pattern |-> KwPat(<<"t","a","b">>, <<"l","e">>, FALSE),     fig_type |-> T_table],
    [pattern |-> KwPat(<<"e","q">>, <<"u","a","t","i","o","n">>, TRUE),   fig_type |-> T_formula],
    [pattern |-> KwPat(<<"a","l","g">>, <<"o","r","i","t","h","m">>, FALSE), fig_type |-> T_algorithm],
    [pattern |-> KwPat(<<"e","x">>, <<"a","m","p","l","e">>, FALSE),   fig_type |-> T_example],
    [pattern |-> ParenPat,                          fig_type |-> T_formula] >>

\* lines 137-142 and 620-623: group(1) of the first pattern found in the text
RECURSIVE search_id(_, _)
IdOr(m, text_lower, k) ==
    IF m.ok
    THEN [element_id |-> Group1(text_lower, m), id_type |-> id_patterns[k].fig_type]
    ELSE search_id(text_lower, k + 1)

search_id(text_lower, k) ==
    IF k > Len(id_patterns) THEN [element_id |-> None, id_type |-> None]
    ELSE IdOr(SearchFrom(text_lower, 1, id_patterns[k].pattern), text_lower, k)

\* block['bbox']['x'] ... block['bbox']['height'] raise no KeyError
HasGeometry(block) ==
    /\ "bbox" \in DOMAIN block
    /\ {"x", "y", "width", "height"} \subseteq DOMAIN block.bbox

\* lines 124-152: the element of block number k
WithId(block, k, id) ==
    [idx |-> k, type |-> Get(block, "type", <<>>), bbox |-> block.bbox,
     text |-> Get(block, "text", <<>>), confidence |-> Get(block, "confidence", 0),
     original |-> block, element_id |-> id.element_id, id_type |-> id.id_type]

element_of(block, k) == WithId(block, k, search_id(Lower(Get(block, "text", <<>>)), 1))

\* _type_matches_pattern, the pattern type given as the set of its
\* '/'-separated parts
type_matches_pattern(elem_type, pattern_type) == elem_type \in pattern_type

\* FigureGrouper.layout_patterns, in the order of the dict
layout_patterns == <<
    << {T_figure_title}, {T_figure, T_image}, {T_figure_caption} >>,
    << {T_table_caption}, {T_table} >>,
    << {T_formula}, {T_number} >>,
    << {T_figure_title}, {T_algorithm}, {T_figure_caption} >> >>

is_core_element(elem_type) ==
    elem_type \in {T_figure, T_image, T_table, T_formula, T_algorithm}

is_figure_metadata(elem_type) ==
    elem_type \in {T_figure_title, T_figure_caption, T_table_caption, T_number}

\* _determine_group_type of the elements es
RECURSIVE determine_group_type(_)
determine_group_type(es) ==
    IF es = <<>> THEN T_unknown
    ELSE IF is_core_element(es[1].type) THEN es[1].type
    ELSE determine_group_type(Tail(es))

is_compatible_element(elem_type, group_type) ==
    \/ group_type \in {T_figure, T_algorithm, T_image}
          /\ elem_type \in {T_figure_title, T_figure_caption}
    \/ group_type = T_table /\ elem_type \in {T_table_caption, T_figure_title}
    \/ group_type = T_formula /\ elem_type \in {T_number, T_figure_caption}

\* _is_spatially_related
is_spatially_related(elem1, elem2) ==
    IF is_above(elem1.bbox, elem2.bbox, alignment_threshold * 2)
    THEN elem2.bbox.y - y2(elem1.bbox) < vertical_threshold
    ELSE IF Abs(center_y(elem1.bbox) - center_y(elem2.bbox)) < elem1.bbox.height
    THEN \/ Abs(elem1.bbox.x - x2(elem2.bbox)) < horizontal_threshold
         \/ Abs(elem2.bbox.x - x2(elem1.bbox)) < horizontal_threshold
    ELSE FALSE

\* _should_group_elements
should_group_elements(core, elem) ==
    IF ~is_figure_metadata(elem.type) THEN FALSE
    ELSE IF /\ elem.type \in {T_figure_title, T_table_caption}
            /\ \/ horizontal_overlap(elem.bbox, core.bbox)
               \/ Abs(center_x(elem.bbox) - center_x(core.bbox)) < alignment_threshold * 2
    THEN IF y2(elem.bbox) < core.bbox.y
         THEN core.bbox.y - y2(elem.bbox) < vertical_threshold * 2
         ELSE elem.bbox.y - y2(core.bbox) < vertical_threshold * 2
    ELSE IF /\ elem.type = T_number
            /\ \/ vertical_overlap(elem.bbox, core.bbox)
               \/ 2 * Abs(center_y(elem.bbox) - center_y(core.bbox)) < core.bbox.height
    THEN elem.bbox.x - x2(core.bbox) < horizontal_threshold
    ELSE distance_to(elem.bbox, core.bbox) < vertical_threshold * 3

\* the alignment score times 0.2:  max(0, 1.0 - x_diff / alignment_threshold) * 0.2
alignment_score(bbox1, bbox2) ==
    (600 * Max2(0, alignment_threshold - Abs(center_x(bbox1) - center_x(bbox2))))
        \div alignment_threshold

\* _calculate_element_affinity
calculate_element_affinity(elem1, elem2) ==
    4 * Max2(0, 300 - distance_to(elem1.bbox, elem2.bbox))
    + (IF is_compatible_element(elem2.type, determine_group_type(<<elem1>>))
       THEN 900 ELSE 0)
    + (IF is_above(elem1.bbox, elem2.bbox, 50) \/ is_below(elem1.bbox, elem2.bbox, 50)
       THEN alignment_score(elem1.bbox, elem2.bbox)
       ELSE IF horizontal_overlap(elem1.bbox, elem2.bbox) THEN 600 ELSE 0)
    + (IF elem1.element_id # None /\ elem1.element_id = elem2.element_id
       THEN 1500 ELSE 0)

\* sum(l) of a list of scores
RECURSIVE Sum(_)
Sum(l) == IF l = <<>> THEN 0 ELSE l[1] + Sum(Tail(l))

\* _calculate_group_affinity: np.mean as the rational sum / n, 0.0 for the
\* empty group
calculate_group_affinity(els, elem, group) ==
    IF group = <<>> THEN W(0, 1)
    ELSE W(Sum([k \in DOMAIN group |-> calculate_element_affinity(elem, els[group[k]])]),
           Len(group))

\* _get_group_bbox of the elements es
MinOf(S) == CHOOSE m \in S : \A n \in S : m <= n
MaxOf(S) == CHOOSE m \in S : \A n \in S : m >= n

get_group_bbox(es) ==
    IF es = <<>> THEN BBox(0, 0, 0, 0)
    ELSE LET min_x == MinOf({es[k].bbox.x : k \in DOMAIN es})
             min_y == MinOf({es[k].bbox.y : k \in DOMAIN es})
         IN BBox(min_x, min_y,
                 MaxOf({x2(es[k].bbox) : k \in DOMAIN es}) - min_x,
                 MaxOf({y2(es[k].bbox) : k \in DOMAIN es}) - min_y)

\* the elements of a group
Members(els, group) == [k \in DOMAIN group |-> els[group[k]]]

\* _group_by_ids, first pass: the dict id_groups as the list of its items in
\* insertion order; the key f"{id_type}_{element_id}" as the pair
AppendTo(id_groups, key, k) ==
    IF \E g \in DOMAIN id_groups : id_groups[g].key = key
    THEN [g \in DOMAIN id_groups |->
             IF id_groups[g].key = key
             THEN [key |-> key, group |-> Append(id_groups[g].group, k)]
             ELSE id_groups[g]]
    ELSE Append(id_groups, [key |-> key, group |-> <<k>>])

RECURSIVE id_first_pass(_, _, _)
id_first_pass(els, k, id_groups) ==
    IF k > Len(els) THEN id_groups
    ELSE IF els[k].element_id = None THEN id_first_pass(els, k + 1, id_groups)
    ELSE id_first_pass(els, k + 1,
             AppendTo(id_groups, <<els[k].id_type, els[k].element_id>>, k))

\* _group_by_ids, second pass: the first group of the highest affinity
Better(best, g, score) ==
    IF Gt(score, best.score) THEN [group |-> g, score |-> score] ELSE best

RECURSIVE best_id_group(_, _, _, _, _)
best_id_group(els, elem, id_groups, g, best) ==
    IF g > Len(id_groups) THEN best
    ELSE best_id_group(els, elem, id_groups, g + 1,
             Better(best, g, calculate_group_affinity(els, elem, id_groups[g].group)))

Joined(id_groups, k, best) ==
    IF best.group # 0 /\ Gt(best.score, W(1500, 1))
    THEN [id_groups EXCEPT ![best.group].group = Append(@, k)]
    ELSE id_groups

RECURSIVE id_second_pass(_, _, _)
id_second_pass(els, k, id_groups) ==
    IF k > Len(els) THEN id_groups
    ELSE IF els[k].element_id # None THEN id_second_pass(els, k + 1, id_groups)
    ELSE id_second_pass(els, k + 1,
             Joined(id_groups, k,
                    best_id_group(els, els[k], id_groups, 1,
                                  [group |-> 0, score |-> W(0, 1)])))

Groups(id_groups) == [g \in DOMAIN id_groups |-> id_groups[g].group]

group_by_ids(els) == Groups(id_second_pass(els, 1, id_first_pass(els, 1, <<>>)))

\* sorted(elements, key = bbox.y), which is stable, as the list of idx
RECURSIVE sorted_by_y(_, _)
InsertByY(els, sorted, k) ==
    LET pos == Cardinality({q \in DOMAIN sorted : els[sorted[q]].bbox.y <= els[k].bbox.y})
    IN SubSeq(sorted, 1, pos) \o <<k>> \o SubSeq(sorted, pos + 1, Len(sorted))

sorted_by_y(els, n) ==
    IF n = 0 THEN <<>> ELSE InsertByY(els, sorted_by_y(els, n - 1), n)

\* _match_pattern after the starting element; pattern_idx is Len(group)
RECURSIVE match_rest(_, _, _, _, _, _)
match_rest(els, sorted, i, pattern, used, group) ==
    IF i > Len(sorted) \/ i \in used \/ Len(group) >= Len(pattern) THEN group
    ELSE IF /\ is_spatially_related(els[group[Len(group)]], els[sorted[i]])
            /\ type_matches_pattern(els[sorted[i]].type, pattern[Len(group) + 1])
         THEN match_rest(els, sorted, i + 1, pattern, used, Append(group, sorted[i]))
         ELSE match_rest(els, sorted, i + 1, pattern, used, group)

\* at least 60% of the pattern matched
Validated(group, pattern) ==
    IF 10 * Len(group) < 6 * Len(pattern) THEN <<>> ELSE group

match_pattern(els, sorted, start_idx, pattern, used) ==
    IF ~type_matches_pattern(els[sorted[start_idx]].type, pattern[1]) THEN <<>>
    ELSE Validated(match_rest(els, sorted, start_idx + 1, pattern, used,
                              <<sorted[start_idx]>>), pattern)

\* sorted_elements.index(e): the first position that holds an equal element
IndexOf(els, sorted, e) ==
    CHOOSE q \in DOMAIN sorted :
        /\ els[sorted[q]].original = els[e].original
        /\ \A r \in 1..(q - 1) : els[sorted[r]].original # els[e].original

WithGroup(els, sorted, st, group) ==
    IF Len(group) >= 2
    THEN [groups |-> Append(st.groups, group),
          used   |-> st.used \cup {IndexOf(els, sorted, group[k]) : k \in DOMAIN group}]
    ELSE st

\* _group_by_patterns: the loop over the patterns p and the positions i
RECURSIVE pattern_scan(_, _, _, _, _)
pattern_scan(els, sorted, p, i, st) ==
    IF p > Len(layout_patterns) THEN st.groups
    ELSE IF i > Len(sorted) THEN pattern_scan(els, sorted, p + 1, 1, st)
    ELSE IF i \in st.used THEN pattern_scan(els, sorted, p, i + 1, st)
    ELSE pattern_scan(els, sorted, p, i + 1,
             WithGroup(els, sorted, st,
                       match_pattern(els, sorted, i, layout_patterns[p], st.used)))

group_by_patterns(els) ==
    pattern_scan(els, sorted_by_y(els, Len(els)), 1, 1, [groups |-> <<>>, used |-> {}])

\* list.sort(key = score, reverse = True), which is stable
RECURSIVE sort_by_score(_)
InsertByScore(sorted, a) ==
    LET pos == Cardinality({q \in DOMAIN sorted : sorted[q].score >= a.score})
    IN SubSeq(sorted, 1, pos) \o <<a>> \o SubSeq(sorted, pos + 1, Len(sorted))

sort_by_score(l) ==
    IF l = <<>> THEN <<>>
    ELSE InsertByScore(sort_by_score(SubSeq(l, 1, Len(l) - 1)), l[Len(l)])

\* _create_groups, lines 277-284: the affinities of the core element i
affinities(els, i, used) ==
    LET scored == [j \in DOMAIN els |->
                      [j |-> j, score |-> calculate_element_affinity(els[i], els[j])]]
        Kept(a) == /\ a.j \notin used \cup {i}
                   /\ els[a.j].original # els[i].original
                   /\ a.score > 0
    IN SelectSeq(scored, Kept)

\* lines 286-292: the elements that join the core element i
joining(els, i, sorted) ==
    LET Joins(a) == a.score > 900 /\ should_group_elements(els[i], els[a.j])
        chosen == SelectSeq(sorted, Joins)
    IN [k \in DOMAIN chosen |-> chosen[k].j]

Grown(i, st, joined) ==
    [groups |-> Append(st.groups, <<i>> \o joined),
     used   |-> st.used \cup {i} \cup Range(joined)]

RECURSIVE core_scan(_, _, _)
core_scan(els, i, st) ==
    IF i > Len(els) THEN st
    ELSE IF ~is_core_element(els[i].type) \/ i \in st.used THEN core_scan(els, i + 1, st)
    ELSE core_scan(els, i + 1,
             Grown(i, st, joining(els, i, sort_by_score(affinities(els, i, st.used)))))

\* _find_best_group_for_element: the score of one group
MaxAlignment(elem, es) ==
    LET aligned == {k \in DOMAIN es : \/ is_above(elem.bbox, es[k].bbox, 50)
                                      \/ is_below(elem.bbox, es[k].bbox, 50)}
    IN IF aligned = {} THEN 0
       ELSE MaxOf({alignment_score(elem.bbox, es[k].bbox) : k \in aligned})

group_score(elem, es) ==
    (1200 * Max2(0, vertical_threshold * 3 - distance_to(elem.bbox, get_group_bbox(es))))
        \div (vertical_threshold * 3)
    + (IF is_compatible_element(elem.type, determine_group_type(es)) THEN 900 ELSE 0)
    + MaxAlignment(elem, es)
    + (IF /\ elem.element_id # None
          /\ \E k \in DOMAIN es : es[k].element_id = elem.element_id
       THEN 1500 ELSE 0)

BetterIdx(best, idx, score) ==
    IF score > best.score THEN [idx |-> idx, score |-> score] ELSE best

RECURSIVE best_group(_, _, _, _, _)
best_group(els, elem, groups, idx, best) ==
    IF idx > Len(groups) THEN best
    ELSE best_group(els, elem, groups, idx + 1,
             BetterIdx(best, idx, group_score(elem, Members(els, groups[idx]))))

\* the index of the best group, 0 for None
Above03(best) == IF best.score > 900 THEN best.idx ELSE 0

find_best_group_for_element(els, elem, groups) ==
    Above03(best_group(els, elem, groups, 1, [idx |-> 0, score |-> 0]))

\* _create_groups, lines 296-303: the metadata elements left over
Placed(groups, i, best_idx) ==
    IF best_idx = 0 THEN groups ELSE [groups EXCEPT ![best_idx] = Append(@, i)]

RECURSIVE remaining_scan(_, _, _, _)
remaining_scan(els, i, used, groups) ==
    IF i > Len(els) THEN groups
    ELSE IF i \in used \/ ~is_figure_metadata(els[i].type)
         THEN remaining_scan(els, i + 1, used, groups)
         ELSE remaining_scan(els, i + 1, used,
                  Placed(groups, i, find_best_group_for_element(els, els[i], groups)))

Remaining(els, st) == remaining_scan(els, 1, st.used, st.groups)

create_groups(els) == Remaining(els, core_scan(els, 1, [groups |-> <<>>, used |-> {}]))

\* the elements of a set of numbers in ascending order
RECURSIVE Ascending(_)
Ascending(S) ==
    IF S = {} THEN <<>> ELSE <<MinOf(S)>> \o Ascending(S \ {MinOf(S)})

\* _merge_groups.  addr[i] is id(elem) of the element with idx i, the
\* address of the dict object.  element_to_groups maps an address to the set
\* of the numbers of the groups that hold the element; the numbers are below
\* 8 for the lists checked here, and CPython iterates such a set in
\* ascending order.
element_to_groups(all_groups, addr) ==
    [a \in {addr[i] : i \in DOMAIN addr} |->
        {g \in DOMAIN all_groups :
            \E k \in DOMAIN all_groups[g] : addr[all_groups[g][k]] = a}]

Ids(group, addr) == {addr[group[k]] : k \in DOMAIN group}

\* lines 380-382: the elements of other_group not in merged_group are appended
RECURSIVE extend(_, _, _)
extend(els, merged_group, other_group) ==
    IF other_group = <<>> THEN merged_group
    ELSE extend(els,
                IF \E k \in DOMAIN merged_group :
                       els[merged_group[k]].original = els[other_group[1]].original
                THEN merged_group
                ELSE Append(merged_group, other_group[1]),
                Tail(other_group))

\* lines 371-383 for one other_group_id
absorb(els, all_groups, addr, i, st, other) ==
    IF other # i /\ other \notin st.used
       /\ 2 * Cardinality(Ids(all_groups[i], addr) \cap Ids(all_groups[other], addr))
             >= Min2(Len(all_groups[i]), Len(all_groups[other]))
    THEN [merged_group |-> extend(els, st.merged_group, all_groups[other]),
          used |-> st.used \cup {other}]
    ELSE st

RECURSIVE absorb_all(_, _, _, _, _, _)
absorb_all(els, all_groups, addr, i, st, others) ==
    IF others = <<>> THEN st
    ELSE absorb_all(els, all_groups, addr, i,
                    absorb(els, all_groups, addr, i, st, others[1]), Tail(others))

\* the elements in address order
by_address(merged_group, addr) ==
    LET inv == [a \in Ids(merged_group, addr) |->
                   CHOOSE i \in Range(merged_group) : addr[i] = a]
        order == Ascending(Ids(merged_group, addr))
    IN [k \in DOMAIN order |-> inv[order[k]]]

\* lines 386-392: duplicates removed, the order preserved
unique_group(merged_group, addr) ==
    LET First(k) == \A q \in 1..(k - 1) : addr[merged_group[q]] # addr[merged_group[k]]
        kept == SelectSeq([k \in DOMAIN merged_group |-> k], First)
    IN [k \in DOMAIN kept |-> merged_group[kept[k]]]

\* lines 371-373: the groups of the elements of group i, element by element
others_of(all_groups, addr, i, etg) ==
    Flatten([k \in DOMAIN all_groups[i] |-> Ascending(etg[addr[all_groups[i][k]]])])

Merged(st, absorbed, addr) ==
    [merged |-> Append(st.merged, unique_group(absorbed.merged_group, addr)),
     used   |-> absorbed.used]

RECURSIVE merge_scan(_, _, _, _, _, _)
merge_scan(els, all_groups, addr, etg, i, st) ==
    IF i > Len(all_groups) THEN st.merged
    ELSE IF i \in st.used THEN merge_scan(els, all_groups, addr, etg, i + 1, st)
    ELSE merge_scan(els, all_groups, addr, etg, i + 1,
             Merged(st,
                    absorb_all(els, all_groups, addr, i,
                               [merged_group |-> all_groups[i], used |-> st.used \cup {i}],
                               others_of(all_groups, addr, i, etg)),
                    addr))

merge_groups(els, all_groups, addr) ==
    merge_scan(els, all_groups, addr, element_to_groups(all_groups, addr), 1,
               [merged |-> <<>>, used |-> {}])

\* ' '.join(parts)
RECURSIVE Join(_)
Join(parts) ==
    IF parts = <<>> THEN <<>>
    ELSE IF Len(parts) = 1 THEN parts[1]
    ELSE parts[1] \o <<" ">> \o Join(Tail(parts))

\* the first position of S whose key is the largest, 0 if S is empty
FirstMax(S, key) ==
    IF S = {} THEN 0
    ELSE CHOOSE k \in S : /\ \A q \in S : key[q] <= key[k]
                          /\ \A q \in S : q < k => key[q] < key[k]

\* the last position of S, 0 if S is empty
LastOf(S) == IF S = {} THEN 0 ELSE MaxOf(S)

\* _extract_figure_id
IdFromText(es, found) ==
    IF found.element_id # None
    THEN [figure_id |-> found.element_id, id_source |-> "extracted"]
    ELSE LET cores == {k \in DOMAIN es : is_core_element(es[k].type)}
             core_elem == es[IF cores = {} THEN 1 ELSE MinOf(cores)]
         IN [figure_id |-> Str(core_elem.bbox.y) \o <<"_">> \o Str(core_elem.bbox.x),
             id_source |-> "generated"]

NonEmptyText(e) == e.text # <<>>

TextOf(es) == [k \in DOMAIN es |-> es[k].text]

extract_figure_id(es) ==
    IF \E k \in DOMAIN es : es[k].element_id # None
    THEN [figure_id |-> es[MinOf({k \in DOMAIN es : es[k].element_id # None})].element_id,
          id_source |-> "extracted"]
    ELSE IdFromText(es, search_id(Lower(Join(TextOf(SelectSeq(es, NonEmptyText)))), 1))

\* text_parts of _create_figure_from_group; title, caption, number and core
\* are positions in es, 0 for None
text_parts(es, title, caption, number, core) ==
    (IF title # 0 THEN <<es[title].text>> ELSE <<>>)
    \o (IF caption # 0 THEN <<es[caption].text>> ELSE <<>>)
    \o (IF number # 0 THEN <<es[number].text>> ELSE <<>>)
    \o (IF /\ es[core].text # <<>>
           /\ \A k \in {title, caption, number} \ {0} : es[k].original # es[core].original
        THEN <<es[core].text>> ELSE <<>>)

FigureOf(es, page_idx, id, group_bbox, text) ==
    [figure_id |-> id.figure_id,
     type |-> determine_group_type(es),
     bbox |-> group_bbox,
     page_idx |-> page_idx,
     text |-> text,
     confidence |-> MaxOf({es[k].confidence : k \in DOMAIN es}),
     elements |-> [k \in DOMAIN es |-> es[k].original],
     id_source |-> id.id_source,
     grouping_method |-> "multi_strategy"]

\* _create_figure_from_group for the elements es of a non-empty group
create_figure_from_group(es, page_idx) ==
    LET area_of == [k \in DOMAIN es |-> area(es[k].bbox)]
        len_of == [k \in DOMAIN es |-> Len(es[k].text)]
        cores == {k \in DOMAIN es : is_core_element(es[k].type)}
        core == IF cores = {} THEN FirstMax(DOMAIN es, area_of) ELSE FirstMax(cores, area_of)
        title == FirstMax({k \in DOMAIN es :
                              es[k].type \in {T_figure_title, T_table_caption}}, len_of)
        caption == LastOf({k \in DOMAIN es : es[k].type = T_figure_caption})
        number == LastOf({k \in DOMAIN es : es[k].type = T_number})
    IN FigureOf(es, page_idx, extract_figure_id(es), get_group_bbox(es),
                Strip(Join(text_parts(es, title, caption, number, core))))

Elements(blocks) == [k \in DOMAIN blocks |-> element_of(blocks[k], k)]

final_groups(els, addr) ==
    merge_groups(els, group_by_ids(els) \o group_by_patterns(els) \o create_groups(els), addr)

FiguresOf(els, groups, page_idx) ==
    [g \in DOMAIN groups |-> create_figure_from_group(Members(els, groups[g]), page_idx)]

\* lines 154-174
Grouped(els, page_idx, addr) == FiguresOf(els, final_groups(els, addr), page_idx)

\* group_figure_elements: the figures, or raised when a block lacks geometry
\* (KeyError at lines 125-130)
group_figure_elements(blocks, page_idx, addr) ==
    IF \E k \in DOMAIN blocks : ~HasGeometry(blocks[k])
    THEN [raised |-> TRUE, figures |-> <<>>]
    ELSE [raised |-> FALSE,
          figures |-> Grouped(Elements(blocks), page_idx, addr)]

(***************************************************************************)
(* SpecGroup: FigureGrouper.group_figure_elements is called on the layout  *)
(* blocks of a page, and then once more on the same blocks, by the same    *)
(* instance or by a new one.                                               *)
(***************************************************************************)
MaxElems == 3

T_Fig1        == <<"F","i","g","."," ","1">>
T_Figure1     == <<"F","i","g","u","r","e"," ","1",":"," ","x">>
T_E3          == <<"E"," ","(","3",")">>
T_Paren3      == <<"(","3",")">>
T_See4        == <<"s","e","e"," ","(","4",")">>

\* a title above an image above a caption, a formula with its number to the
\* right, a number right under the image, a body text block that cites
\* '(4)', and an image without 'bbox'; every two boxes share part of their
\* x range or of their y range, so that all distances are whole numbers
GrpBlocks ==
    { LayoutBlock(T_figure_title, BBox(100, 50, 200, 20), T_Fig1, 90),
      LayoutBlock(T_image, BBox(100, 100, 200, 100), <<>>, 95),
      LayoutBlock(T_figure_caption, BBox(100, 210, 200, 20), T_Figure1, 80),
      LayoutBlock(T_formula, BBox(100, 400, 170, 20), T_E3, 85),
      LayoutBlock(T_number, BBox(280, 400, 40, 20), T_Paren3, 70),
      LayoutBlock(T_number, BBox(120, 205, 40, 20), T_Paren3, 70),
      LayoutBlock(T_text, BBox(100, 250, 200, 20), T_See4, 50),
      [type |-> T_image, text |-> <<>>, confidence |-> 95] }

GroupPages == {0, 1}

\* the addresses of the element dicts of one call: in the order of the list
\* or in the opposite order
Addresses(n) == {[i \in 1..n |-> i], [i \in 1..n |-> n + 1 - i]}

InitGroup ==
    /\ MapperIdle
    /\ FigIdle
    /\ PPIdle
    /\ BoxIdle
    /\ GenIdle
    /\ PostIdle
    /\ ExtIdle
    /\ layout_blocks \in SeqsUpTo(GrpBlocks, MaxElems)
    /\ group_page_idx \in GroupPages
    /\ group_results = <<>>
    /\ groupers = <<>>

\* one call by the FigureGrouper number instance
Call(instance) ==
    /\ \E addr \in Addresses(Len(layout_blocks)) :
          group_results' = Append(group_results,
              group_figure_elements(layout_blocks, group_page_idx, addr))
    /\ groupers' = Append(groupers, instance)
    /\ UNCHANGED <<layout_blocks, group_page_idx, box_vars, gen_vars, post_vars,
                   ext_vars, fig_vars, pp_vars, mapper_vars, doc_vars>>

\* the first call
GroupFigureElements == group_results = <<>> /\ Call(1)

\* the second call on the same instance
GroupAgain == Len(group_results) = 1 /\ Call(1)

\* the second call on a new FigureGrouper()
GroupOnFresh == Len(group_results) = 1 /\ Call(2)

NextGroup == GroupFigureElements \/ GroupAgain \/ GroupOnFresh

SpecGroup == InitGroup /\ [][NextGroup]_vars

\* C11: group_figure_elements never raises on a block with missing geometry,
\* and returns the figures of the page.
C11_MalformedGeometryNeverRaises ==
    \A k \in DOMAIN group_results : ~group_results[k].raised

\* C12: a second call on the same layout blocks and page index, by the same
\* instance or by a new one, gives the same outcome as the first call: the
\* same figures (figure_id, type, bbox, text, confidence, elements and all
\* other fields) in the same order.
C12_SecondCallSameFigures ==
    Len(group_results) = 2 => group_results[2] = group_results[1]

\* two calls returned a figure grouped from several elements, the second
\* call made by a new instance
C12_Witness ==
    /\ Len(group_results) = 2
    /\ groupers = <<1, 2>>
    /\ ~group_results[2].raised
    /\ \E f \in DOMAIN group_results[2].figures :
          Len(group_results[2].figures[f].elements) >= 2

\* the matches of all patterns in the text of block k
MatchesOfBlock(k) == Range(all_matches(Lower(text_blocks[k].text)))

\* C21: of the matches that start where a kept match starts, the kept one is
\* the longest, whichever pattern of the table found it.
C21_LongestMatchAtSameStart ==
    extract_done =>
        \A a \in DOMAIN spans :
            \A m \in MatchesOfBlock(spans[a].block) :
                m.start = spans[a].start => m.end <= spans[a].end

\* C22: every emitted reference has a reference_type among figure, table,
\* equation, example, algorithm and unknown.
C22_ReferenceTypeInEnum ==
    extract_done =>
        \A a \in DOMAIN references_out :
            references_out[a].reference_type \in
                {FIGURE, TABLE, EQUATION, EXAMPLE, ALGORITHM, UNKNOWN}

\* the groups of the three strategies and the groups _merge_groups makes of
\* them, for the layout blocks of the call
StrategyGroups ==
    group_by_ids(Elements(layout_blocks)) \o group_by_patterns(Elements(layout_blocks))
        \o create_groups(Elements(layout_blocks))

MergedGroups ==
    merge_groups(Elements(layout_blocks), StrategyGroups,
                 [i \in DOMAIN layout_blocks |-> i])

\* a call has returned figures
Returned == group_results # <<>> /\ ~group_results[1].raised

\* two groups share at least 50% of the elements of the smaller one
Overlapping(g, h) ==
    2 * Cardinality(Range(g) \cap Range(h)) >= Min2(Len(g), Len(h))

\* C23: no two groups in the output of _merge_groups share at least 50% of
\* the smaller group's elements, two strategy groups that do are in one
\* output group, and an output group holds each element once.
C23_OverlappingGroupsMerged ==
    Returned =>
        /\ \A a, b \in DOMAIN MergedGroups :
              a # b => ~Overlapping(MergedGroups[a], MergedGroups[b])
        /\ \A a, b \in DOMAIN StrategyGroups :
              Overlapping(StrategyGroups[a], StrategyGroups[b]) =>
                  \E m \in DOMAIN MergedGroups :
                      Range(StrategyGroups[a]) \cup Range(StrategyGroups[b])
                          \subseteq Range(MergedGroups[m])
        /\ \A m \in DOMAIN MergedGroups :
              Cardinality(Range(MergedGroups[m])) = Len(MergedGroups[m])

\* C24: every input layout element is a member of at most one returned
\* Figure.
C24_ElementInOneFigure ==
    Returned =>
        \A i \in DOMAIN layout_blocks :
            Cardinality({m \in DOMAIN MergedGroups : i \in Range(MergedGroups[m])}) <= 1

\* C25: no element whose type is neither a core type nor a metadata type is
\* a member of a returned Figure.
C25_OtherTypesNotGrouped ==
    Returned =>
        \A f \in DOMAIN group_results[1].figures :
            \A k \in DOMAIN group_results[1].figures[f].elements :
                \/ is_core_element(group_results[1].figures[f].elements[k].type)
                \/ is_figure_metadata(group_results[1].figures[f].elements[k].type)

PatternGroups == group_by_patterns(Elements(layout_blocks))

SortedElements == sorted_by_y(Elements(layout_blocks), Len(layout_blocks))

\* the positions Q of the sorted elements match the types S of the template
\* in order, each element spatially related to the one before it
MatchesInOrder(pattern, S, Q) ==
    /\ Cardinality(Q) = Cardinality(S)
    /\ \A j \in 1..Cardinality(S) :
          type_matches_pattern(
              Elements(layout_blocks)[SortedElements[Ascending(Q)[j]]].type,
              pattern[Ascending(S)[j]])
    /\ \A j \in 1..(Cardinality(S) - 1) :
          is_spatially_related(
              Elements(layout_blocks)[SortedElements[Ascending(Q)[j]]],
              Elements(layout_blocks)[SortedElements[Ascending(Q)[j + 1]]])

\* C26: elements that match at least 60% of a template's types in template
\* order, each spatially related to the one before, are in one pattern
\* group, whichever type of the template is missing; and every pattern
\* group has at least 60% of the types of some template.
C26_SixtyPercentOfTemplate ==
    Returned =>
        /\ \A p \in DOMAIN layout_patterns :
              \A S \in SUBSET DOMAIN layout_patterns[p] :
                  10 * Cardinality(S) >= 6 * Len(layout_patterns[p]) =>
                      \A Q \in SUBSET DOMAIN SortedElements :
                          MatchesInOrder(layout_patterns[p], S, Q) =>
                              \E g \in DOMAIN PatternGroups :
                                  {SortedElements[q] : q \in Q}
                                      \subseteq Range(PatternGroups[g])
        /\ \A g \in DOMAIN PatternGroups :
              \E p \in DOMAIN layout_patterns :
                  10 * Len(PatternGroups[g]) >= 6 * Len(layout_patterns[p])

ProximityGroups == create_groups(Elements(layout_blocks))

\* C27: a number in a proximity group lies to the right of the group's core
\* element, less than horizontal_threshold away, and overlaps it vertically.
C27_NumberRightOfCore ==
    Returned =>
        \A g \in DOMAIN ProximityGroups :
            \A k \in 2..Len(ProximityGroups[g]) :
                LET core == Elements(layout_blocks)[ProximityGroups[g][1]]
                    elem == Elements(layout_blocks)[ProximityGroups[g][k]]
                IN elem.type = T_number =>
                      /\ 0 <= elem.bbox.x - x2(core.bbox)
                      /\ elem.bbox.x - x2(core.bbox) < horizontal_threshold
                      /\ vertical_overlap(elem.bbox, core.bbox)

(***************************************************************************)
(* The pages of a process_pdf result (specification SpecDoc).              *)
(***************************************************************************)
\* process_pdf has returned from a mapping step that did not raise, and
\* _process_pdf has not yet touched the pages
ProcessPdfMapped == doc_pc = "pdf_done" /\ api_idx = 0 /\ ~mapping_failed

\* process_pdf, lines 236-239: the list the mapper returned for
\* result['all_references'] and result['figures']
all_mapped_references ==
    map_references_to_figures(NewGraph, DocReferences, result_figures).out

\* C28: after a mapping step that did not raise, the pages' reference lists
\* concatenated in page order are the list the mapper returned, and every
\* page holds as many references as were extracted from it, the i-th being
\* the resolution (same text and bbox) of the i-th reference extracted from
\* that page; a page that failed or shows no reference holds none.
C28_PagesPartitionMapperOutput ==
    ProcessPdfMapped =>
        /\ Flatten([k \in DOMAIN pages |-> pages[k].references]) = all_mapped_references
        /\ \A k \in DOMAIN pages :
              /\ Len(pages[k].references) = Len(doc[k].refs)
              /\ \A i \in DOMAIN pages[k].references :
                    /\ pages[k].references[i].text = doc[k].refs[i].text
                    /\ pages[k].references[i].bbox = doc[k].refs[i].bbox
                    /\ "not_matched" \in DOMAIN pages[k].references[i]

\* witness of C28: a document whose first page failed after its Figure was
\* appended and whose second page shows two references, the first of them
\* resolved to that Figure
C28_Witness ==
    /\ ProcessPdfMapped
    /\ Len(pages) = 2
    /\ doc[1].kind = "error"
    /\ doc[1].figs # <<>>
    /\ pages[1].references = <<>>
    /\ Len(pages[2].references) = 2
    /\ pages[2].references[1].not_matched = FALSE
    /\ pages[2].references[2].not_matched = TRUE

(***************************************************************************)
(* Specification SpecFigures: the Figures of a process_pdf result.  The    *)
(* page loop of process_pdf hands the layout blocks of each page to        *)
(* FigureGrouper.group_figure_elements with the index of the page and      *)
(* appends a figure_info for every grouped Figure to result['figures'].    *)
(***************************************************************************)
\* the layout blocks a page can show, in reading order; the last one lacks
\* its bbox
FigBlockList ==
    << LayoutBlock(T_image, BBox(100, 100, 200, 100), <<>>, 95),
       LayoutBlock(T_figure_caption, BBox(100, 210, 200, 20), T_Figure1, 80),
       LayoutBlock(T_table, BBox(100, 400, 200, 100), <<>>, 90),
       [type |-> T_image, text |-> <<>>, confidence |-> 95] >>

\* process_pdf, lines 173-191: figure_info of a grouped Figure
figure_info_of_grouped(grouped_figure, page_idx) ==
    [figure_id       |-> grouped_figure.figure_id,
     type            |-> grouped_figure.type,
     bbox            |-> grouped_figure.bbox,
     page_idx        |-> grouped_figure.page_idx,
     text            |-> grouped_figure.text,
     confidence      |-> grouped_figure.confidence,
     elements        |-> grouped_figure.elements,
     grouping_method |-> grouped_figure.grouping_method,
     id_source       |-> grouped_figure.id_source,
     reference_type  |-> generate_figure_info(grouped_figure, page_idx).reference_type]

\* process_pdf, lines 168-194: the figure_infos of the grouped Figures of a page
figure_infos_of(grouped_figures, page_idx) ==
    [k \in DOMAIN grouped_figures |-> figure_info_of_grouped(grouped_figures[k], page_idx)]

InitFigures ==
    /\ MapperIdle
    /\ BoxIdle
    /\ GenIdle
    /\ PostIdle
    /\ ExtIdle
    /\ GrpIdle
    /\ PPIdle
    /\ \E n \in 1..MaxPages : detected \in [1..n -> SubLists(FigBlockList)]
    /\ fig_page_idx = 0
    /\ fig_result = <<>>

\* process_pdf, lines 160-194: the grouper returns for the page
PageGrouped(grouped) ==
    /\ ~grouped.raised
    /\ fig_result' = fig_result \o figure_infos_of(grouped.figures, fig_page_idx)

\* process_pdf, lines 216-227: the grouper raises, the page is recorded
\* without figures
PageFailed(grouped) ==
    /\ grouped.raised
    /\ UNCHANGED fig_result

\* process_pdf, lines 149-227: one iteration of the page loop
ProcessPageFigures ==
    /\ fig_page_idx < Len(detected)
    /\ \E addr \in Addresses(Len(detected[fig_page_idx + 1])) :
          LET grouped == group_figure_elements(detected[fig_page_idx + 1],
                                               fig_page_idx, addr)
          IN PageGrouped(grouped) \/ PageFailed(grouped)
    /\ fig_page_idx' = fig_page_idx + 1
    /\ UNCHANGED <<detected, box_vars, gen_vars, post_vars, ext_vars, grp_vars,
                   pp_vars, mapper_vars, doc_vars>>

NextFigures == ProcessPageFigures

SpecFigures == InitFigures /\ [][NextFigures]_vars

\* C29: two Figures of a process_pdf result that have a generated
\* figure_id and lie on different pages have different figure_ids.
C29_GeneratedIdsDifferAcrossPages ==
    \A i, j \in DOMAIN fig_result :
        ( /\ fig_result[i].id_source = "generated"
          /\ fig_result[j].id_source = "generated"
          /\ fig_result[i].page_idx # fig_result[j].page_idx )
        => fig_result[i].figure_id # fig_result[j].figure_id

(***************************************************************************)
(* Specification SpecPP: the module-level PPStructureV3 instance of        *)
(* pdf_processor.py.  The server handles every request in a thread of its  *)
(* own; each request constructs a PDFProcessor (analyze.py, line 142),     *)
(* whose __init__ calls get_pp_structure_instance.  No lock is taken: the  *)
(* steps of the threads interleave at every statement, and the             *)
(* construction of PPStructureV3 loads model files, in which the           *)
(* interpreter lock is released.  An instance is the one-element tuple of  *)
(* the number of its construction; None is the empty tuple.               *)
(***************************************************************************)
\* most requests in flight
MaxRequests == 3

RequestThreads == 1..MaxRequests

InitPP ==
    /\ MapperIdle
    /\ BoxIdle
    /\ GenIdle
    /\ PostIdle
    /\ ExtIdle
    /\ GrpIdle
    /\ FigIdle
    /\ pp_structure_instance = None
    /\ get_pc = [t \in RequestThreads |-> "call"]
    /\ new_instance = [t \in RequestThreads |-> None]
    /\ constructed = 0
    /\ pp_structure = [t \in RequestThreads |-> None]

NotPP == <<box_vars, gen_vars, post_vars, ext_vars, grp_vars, fig_vars, mapper_vars, doc_vars>>

\* get_pp_structure_instance, line 21: if _pp_structure_instance is None
TestInstance(t) ==
    /\ get_pc[t] = "call"
    /\ get_pc' = [get_pc EXCEPT ![t] = IF pp_structure_instance = None
                                        THEN "construct" ELSE "return"]
    /\ UNCHANGED <<pp_structure_instance, new_instance, constructed, pp_structure, NotPP>>

\* line 47, right-hand side: PPStructureV3(**config_balanced) returns
Construct(t) ==
    /\ get_pc[t] = "construct"
    /\ constructed' = constructed + 1
    /\ new_instance' = [new_instance EXCEPT ![t] = <<constructed + 1>>]
    /\ get_pc' = [get_pc EXCEPT ![t] = "store"]
    /\ UNCHANGED <<pp_structure_instance, pp_structure, NotPP>>

\* line 47, right-hand side: PPStructureV3(**config_balanced) raises (no
\* model files and no download); PDFProcessor() raises and the request fails
ConstructRaises(t) ==
    /\ get_pc[t] = "construct"
    /\ get_pc' = [get_pc EXCEPT ![t] = "raised"]
    /\ UNCHANGED <<pp_structure_instance, new_instance, constructed, pp_structure, NotPP>>

\* line 47, assignment to the global
Store(t) ==
    /\ get_pc[t] = "store"
    /\ pp_structure_instance' = new_instance[t]
    /\ get_pc' = [get_pc EXCEPT ![t] = "return"]
    /\ UNCHANGED <<new_instance, constructed, pp_structure, NotPP>>

\* line 51, return _pp_structure_instance, and PDFProcessor.__init__, line 56
Return(t) ==
    /\ get_pc[t] = "return"
    /\ pp_structure' = [pp_structure EXCEPT ![t] = pp_structure_instance]
    /\ get_pc' = [get_pc EXCEPT ![t] = "done"]
    /\ UNCHANGED <<pp_structure_instance, new_instance, constructed, NotPP>>

NextPP ==
    \E t \in RequestThreads :
        \/ TestInstance(t)
        \/ Construct(t)
        \/ ConstructRaises(t)
        \/ Store(t)
        \/ Return(t)

SpecPP == InitPP /\ [][NextPP]_vars

\* C30: whatever the interleaving of the requests, at most one PPStructureV3
\* is constructed, none is constructed while the global holds one or while
\* another thread constructs or holds a new one, and all PDFProcessors
\* hold the same instance.
C30_OnePPStructureInstance ==
    /\ constructed <= 1
    /\ \A t \in RequestThreads :
          get_pc[t] \in {"construct", "store"} =>
              /\ pp_structure_instance = None
              /\ \A u \in RequestThreads \ {t} : get_pc[u] \notin {"construct", "store"}
    /\ \A t, u \in RequestThreads :
          (get_pc[t] = "done" /\ get_pc[u] = "done") => pp_structure[t] = pp_structure[u]

=============================================================================
